---- MODULE Spec2Model ----
(***************************************************************************)
(* Model of the commit synchronisation pipeline of commitbot:              *)
(* POST /api/sync and POST /api/repositories of server/routes.ts, the      *)
(* in-memory store MemStorage, the file-backed ConfigManager and the       *)
(* GitHubService client, against an external commit source.                *)
(*                                                                         *)
(* Time is counted in days: clock is what new Date() / Date.now() returns. *)
(* One action is one awaited call of the handler together with the         *)
(* synchronous code that runs with it.                                     *)
(***************************************************************************)
EXTENDS Integers, Sequences, FiniteSets, TLC

\* ------------------------------------------------------------------ bounds
MaxTime == 1
MaxRepos == 2
MaxPush == 2
MaxSyncs == 2
MaxPosts == 2
MaxPublish == 2
MaxIds == 2

\* ------------------------------------------------------- program constants
\* 7 * 24 * 60 * 60 * 1000 ms, in days
LookbackDays == 7
\* per_page of the list request
PerPage == 100

\* null / undefined / no such file is None, a present value x is Some(x)
None == <<>>
Some(x) == <<x>>

RepoKeys == {<<"acme", "widgets">>, <<"acme", "gadgets">>}
Shas == {"aaa", "bbb"}
Procs == {1}

VARIABLES
    clock,            \* the wall clock
    repositories,     \* MemStorage.repositories : id -> Repository
    currentRepoId,    \* MemStorage.currentRepoId
    commits,          \* MemStorage.commits : id -> Commit
    currentCommitId,  \* MemStorage.currentCommitId
    configFile,       \* config.json : None (no readable file) or Some(BotConfigData)
    reposFile,        \* repos.json  : None or Some(sequence of RepositoryConfig)
    source,           \* the external history: repo key -> commits, newest first
    sync,             \* per invocation of POST /api/sync: its locals and position
    started,          \* number of sync invocations started so far
    obs,              \* per invocation: what an observer of the run records
    hist,             \* observer of runs in succession (switched on in SpecTwice)
    blogPosts,        \* MemStorage.blogPosts : id -> BlogPost
    currentPostId,    \* MemStorage.currentPostId
    pub,              \* the invocation of POST /api/publish/:id: its locals and position
    hive,             \* the publishing network: ids of the posts it accepted, in order
    gate,             \* observer of two runs from one state (switched on in SpecGate)
    reg,              \* observer of POST /api/repositories (switched on in SpecRegister)
    gen,              \* the latest POST /api/generate-summary: its inputs and response
    posted            \* observer of POST /api/config: the document it saved latest

vars == <<clock, repositories, currentRepoId, commits, currentCommitId,
          configFile, reposFile, source, sync, started, obs, hist,
          blogPosts, currentPostId, pub, hive, gate, reg, gen, posted>>

storeVars == <<repositories, currentRepoId, commits, currentCommitId>>
fileVars == <<configFile, reposFile>>
postVars == <<blogPosts, currentPostId, pub, hive>>
reqVars == <<reg, gen, posted>>

\* ----------------------------------------------------------------- helpers
Min(a, b) == IF a < b THEN a ELSE b

Take(s, n) == SubSeq(s, 1, Min(n, Len(s)))

MapSet(m, k, v) == [x \in DOMAIN m \cup {k} |-> IF x = k THEN v ELSE m[x]]

MinOf(S) == CHOOSE x \in S : \A y \in S : x <= y

RECURSIVE KeysInOrder(_)
KeysInOrder(S) == IF S = {} THEN <<>>
                  ELSE <<MinOf(S)>> \o KeysInOrder(S \ {MinOf(S)})

\* Array.from(map.values()): insertion order, which is the order of the ids
MapValues(m) == [n \in 1..Cardinality(DOMAIN m) |-> m[KeysInOrder(DOMAIN m)[n]]]

Range(s) == {s[n] : n \in DOMAIN s}

\* ---------------------------------------------------------- ConfigManager
getDefaultConfig == [lastSyncTime |-> None, syncInterval |-> 6, autoPublish |-> FALSE]

loadConfig == IF configFile = None THEN getDefaultConfig ELSE configFile[1]

getDefaultRepositories ==
    << [owner |-> "skatehive", name |-> "skatehive-web", isActive |-> TRUE],
       [owner |-> "skatehive", name |-> "skatehive-api", isActive |-> TRUE],
       [owner |-> "gnars-dao", name |-> "gnars-frontend", isActive |-> TRUE] >>

loadRepositories == IF reposFile = None THEN getDefaultRepositories ELSE reposFile[1]

\* ------------------------------------------------------------- MemStorage
\* variant without the isActive filter
getActiveRepositories_Unfiltered == MapValues(repositories)

getActiveRepositories == SelectSeq(MapValues(repositories), LAMBDA r : r.isActive)

\* x ?? true, for x one of "true", "false", "undefined"
OrTrue(x) == IF x = "undefined" THEN TRUE ELSE x = "true"

\* variant whose identifier does not advance
createRepository_FirstId(insertRepo) ==
    MapSet(repositories, currentRepoId,
           [id |-> 1,
            owner |-> insertRepo.owner,
            name |-> insertRepo.name,
            isActive |-> OrTrue(insertRepo.isActive),
            lastSyncTime |-> insertRepo.lastSyncTime])

\* id = this.currentRepoId++; isActive ?? true; lastSyncTime || null
createRepository(insertRepo) ==
    MapSet(repositories, currentRepoId,
           [id |-> currentRepoId,
            owner |-> insertRepo.owner,
            name |-> insertRepo.name,
            isActive |-> OrTrue(insertRepo.isActive),
            lastSyncTime |-> insertRepo.lastSyncTime])

updateRepository(id, updates) ==
    IF id \notin DOMAIN repositories THEN repositories
    ELSE [repositories EXCEPT ![id].lastSyncTime = updates.lastSyncTime]

\* variant whose lookup never finds a stored commit
getCommitsBySha_NeverFound(sha) == None

getCommitsBySha(sha) ==
    LET hits == SelectSeq(MapValues(commits), LAMBDA c : c.sha = sha)
    IN  IF hits = <<>> THEN None ELSE Some(hits[1])

\* variant that keeps the sha unique: a commit whose sha is stored is not added
createCommit_UniqueSha(insertCommit) ==
    IF \E c \in DOMAIN commits : commits[c].sha = insertCommit.sha
    THEN commits
    ELSE MapSet(commits, currentCommitId,
                [id |-> currentCommitId,
                 repositoryId |-> insertCommit.repositoryId,
                 sha |-> insertCommit.sha,
                 date |-> insertCommit.date,
                 processed |-> insertCommit.processed])

createCommit(insertCommit) ==
    MapSet(commits, currentCommitId,
           [id |-> currentCommitId,
            repositoryId |-> insertCommit.repositoryId,
            sha |-> insertCommit.sha,
            date |-> insertCommit.date,
            processed |-> insertCommit.processed])

\* variant that flips the flag of each listed commit to the opposite value
RECURSIVE MarkEach_Toggle(_, _)
MarkEach_Toggle(cs, commitIds) ==
    IF commitIds = <<>> THEN cs
    ELSE LET id == Head(commitIds)
         IN  MarkEach_Toggle(IF id \in DOMAIN cs
                             THEN [cs EXCEPT ![id].processed = ~cs[id].processed]
                             ELSE cs,
                             Tail(commitIds))

\* for (const id of commitIds) { commit && commits.set(id, {...commit, processed: true}) }
\* on the commit collection cs
RECURSIVE MarkEach(_, _)
MarkEach(cs, commitIds) ==
    IF commitIds = <<>> THEN cs
    ELSE LET id == Head(commitIds)
         IN  MarkEach(IF id \in DOMAIN cs THEN [cs EXCEPT ![id].processed = TRUE] ELSE cs,
                      Tail(commitIds))

\* variant that flips the flag of every stored commit
markCommitsAsProcessed_All(commitIds) ==
    [c \in DOMAIN commits |-> [commits[c] EXCEPT !.processed = TRUE]]

markCommitsAsProcessed(commitIds) == MarkEach(commits, commitIds)

getBlogPost(id) == IF id \in DOMAIN blogPosts THEN Some(blogPosts[id]) ELSE None

\* x || "draft", for x "undefined" or a status
OrDraft(x) == IF x = "undefined" THEN "draft" ELSE x

\* variant that takes the first identifier above the number of stored posts
createBlogPost_Compact(insertPost) ==
    LET id == Cardinality(DOMAIN blogPosts) + 1
    IN  MapSet(blogPosts, id,
               [id |-> id,
                status |-> OrDraft(insertPost.status),
                hivePostId |-> insertPost.hivePostId,
                publishedAt |-> insertPost.publishedAt,
                commitsIncluded |-> insertPost.commitsIncluded])

createBlogPost(insertPost) ==
    MapSet(blogPosts, currentPostId,
           [id |-> currentPostId,
            status |-> OrDraft(insertPost.status),
            hivePostId |-> insertPost.hivePostId,
            publishedAt |-> insertPost.publishedAt,
            commitsIncluded |-> insertPost.commitsIncluded])

\* { ...existing, ...updates } for updates of status, publishedAt, hivePostId
updateBlogPost(id, updates) ==
    IF id \notin DOMAIN blogPosts THEN blogPosts
    ELSE [blogPosts EXCEPT ![id].status = updates.status,
                           ![id].publishedAt = updates.publishedAt,
                           ![id].hivePostId = updates.hivePostId]

\* this.repositories.delete(id)
deleteRepository(id) == [x \in DOMAIN repositories \ {id} |-> repositories[x]]

\* this.blogPosts.delete(id)
deleteBlogPost(id) == [x \in DOMAIN blogPosts \ {id} |-> blogPosts[x]]

\* ---------------------------------------------------------- GitHubService
\* repos.listCommits({owner, repo, since, per_page}): the first page of the
\* commits of the source not older than since
listCommits(key, since) ==
    Take(SelectSeq(source[key], LAMBDA c : c.date >= since), PerPage)

\* variant that loses the hash of the commit
convertToInsertCommit_NoSha(githubCommit, repositoryId) ==
    [repositoryId |-> repositoryId,
     sha |-> "",
     date |-> githubCommit.date,
     processed |-> FALSE]

convertToInsertCommit(githubCommit, repositoryId) ==
    [repositoryId |-> repositoryId,
     sha |-> githubCommit.sha,
     date |-> githubCommit.date,
     processed |-> FALSE]

\* the dates the source holds for a hash: a hash identifies one commit
knownDates(sha) ==
    {c.date : c \in {x \in UNION {Range(source[k]) : k \in RepoKeys} : x.sha = sha}}

\* ------------------------------------------------------------------- Init
NoCall == [kind |-> "none", repoId |-> 0, since |-> 0, sha |-> ""]

IdleSync ==
    [pc |-> "idle",
     repositories |-> <<>>,      \* const repositories (the snapshot)
     i |-> 1,                    \* position of for (const repo of repositories)
     githubCommits |-> <<>>,
     j |-> 1,                    \* position of for (const githubCommit of githubCommits)
     totalNewCommits |-> 0,
     errors |-> <<>>,
     timestamp |-> 0,            \* the argument of updateLastSyncTime
     config |-> None,            \* the document updateLastSyncTime loaded
     lastCall |-> NoCall,        \* the latest request sent to the history provider
     response |-> None]

IdleObs ==
    [token |-> TRUE,             \* whether a credential was configured
     preCount |-> 0,             \* the number of stored commits when it began
     activeAtLoad |-> {},        \* ids of the repositories active when loaded
     got |-> <<>>,               \* repository id -> hashes its list fetch returned
     threw |-> {},               \* ids of the repositories a call threw for
     written |-> {},             \* ids of the repositories whose checkpoint was written
     saveThrew |-> FALSE]        \* whether saving the config document threw

\* on: whether runs in succession are observed; prev: how the last run ended
\* ("setup": it failed at setup, "errors": a repository failed, "clean": neither),
\* "none" once the source or the repository collection changed after it began
\* (or before any run); follows: prev as the
\* current run found it; disturbed: the source or the repository collection
\* changed since the current run began; secondOf: follows, for a run that
\* ended undisturbed
NoHist == [on |-> FALSE, prev |-> "none", follows |-> "none", disturbed |-> FALSE,
           secondOf |-> "none"]

Disturbed(h) == IF h.on THEN [h EXCEPT !.prev = "none", !.disturbed = TRUE] ELSE h

Began(h, failedAtSetup) ==
    IF ~h.on THEN h
    ELSE IF failedAtSetup
         THEN [h EXCEPT !.prev = "setup", !.follows = h.prev, !.disturbed = FALSE,
                        !.secondOf = h.prev]
         ELSE [h EXCEPT !.prev = "none", !.follows = h.prev, !.disturbed = FALSE,
                        !.secondOf = "none"]

Ended(h, threw) ==
    IF ~h.on THEN h
    ELSE [h EXCEPT !.prev = IF h.disturbed THEN "none"
                            ELSE IF threw = {} THEN "clean" ELSE "errors",
                   !.disturbed = FALSE,
                   !.secondOf = IF h.disturbed THEN "none" ELSE h.follows]

\* on: whether two runs from one state are observed; phase: 1 for the first
\* run, 2 for the second; snap: the store, the clock aside, as the first run
\* found it; log: the requests the current run sent to the history provider,
\* each with whether it threw; first: the token, the log and the resulting store
\* of the first run; firstConfig, secondConfig: the global lastSyncTime each run
\* started with
NoGate ==
    [on |-> FALSE, phase |-> 1,
     snap |-> [repositories |-> <<>>, commits |-> <<>>, currentCommitId |-> 1],
     log |-> <<>>,
     first |-> [token |-> TRUE, log |-> <<>>, repositories |-> <<>>, commits |-> <<>>],
     firstConfig |-> None, secondConfig |-> None]

Logged(g, call, threw) ==
    IF g.on THEN [g EXCEPT !.log = Append(@, [call |-> call, threw |-> threw])] ELSE g

\* on: whether the requests to POST /api/repositories are observed; the rest
\* describes the latest one: its body (owner, name, isActive), whether the
\* repository exists at the history provider, what validateRepository
\* returned (None: it was not called), the response status and the id of the
\* repository it created (0: none)
NoReg ==
    [on |-> FALSE, owner |-> "", name |-> "", isActive |-> "undefined",
     exists |-> FALSE, isValid |-> None, status |-> 0, id |-> 0]

Noted(r, repoData, exists, isValid, status, id) ==
    IF r.on
    THEN [r EXCEPT !.owner = repoData.owner, !.name = repoData.name,
                   !.isActive = repoData.isActive, !.exists = exists,
                   !.isValid = isValid, !.status = status, !.id = id]
    ELSE r

\* nothing saved through POST /api/config yet. doc: the document saved latest;
\* overtook: a save landed between the load and the save of an
\* updateLastSyncTime; intact: no failed write has touched the file
NotPosted == [doc |-> None, overtook |-> FALSE, intact |-> TRUE]

\* POST /api/generate-summary before any request: content is the message the
\* language model returned to the latest request (None: null, or the model
\* was not asked), asked whether the model was asked and answered, response
\* the answer of the route
IdleGen == [content |-> None, asked |-> FALSE, response |-> None]

\* POST /api/publish/:id at rest
IdlePub ==
    [pc |-> "idle",
     postId |-> 0,               \* parseInt(req.params.id)
     post |-> None,              \* const post (the object getBlogPost returned)
     result |-> None,            \* const result of hiveService.publishPost
     response |-> None,
     requests |-> 0]             \* number of publish requests so far

\* new Map() for blogPosts, currentPostId = 1; nothing published yet
InitPosts ==
    /\ blogPosts = <<>>
    /\ currentPostId = 1
    /\ pub = IdlePub
    /\ hive = <<>>

Init ==
    /\ clock = 0
    /\ repositories = <<>>
    /\ currentRepoId = 1
    /\ commits = <<>>
    /\ currentCommitId = 1
    /\ configFile = None
    /\ reposFile = None
    /\ source = [k \in RepoKeys |-> <<>>]
    /\ sync = [p \in Procs |-> IdleSync]
    /\ started = 0
    /\ obs = [p \in Procs |-> IdleObs]
    /\ hist = NoHist
    /\ InitPosts
    /\ reg = NoReg
    /\ gen = IdleGen
    /\ posted = NotPosted
    /\ gate = NoGate

\* ------------------------------------------------------------ environment
Tick ==
    /\ clock < MaxTime
    /\ clock' = clock + 1
    /\ UNCHANGED <<reqVars, gate, postVars, storeVars, fileVars, source, sync, started, obs, hist>>

TotalPushed == Len(source[<<"acme", "widgets">>]) + Len(source[<<"acme", "gadgets">>])

\* a commit becomes visible at the source: a new one is dated now, one the
\* source already holds (in either repository) keeps its date
Push(key, sha) ==
    /\ TotalPushed < MaxPush
    /\ \E d \in (IF knownDates(sha) # {} THEN knownDates(sha) ELSE {clock}) :
          source' = [source EXCEPT ![key] = <<[sha |-> sha, date |-> d]>> \o @]
    /\ hist' = Disturbed(hist)
    /\ UNCHANGED <<reqVars, gate, postVars, clock, storeVars, fileVars, sync, started, obs>>

\* ------------------------------------------------- POST /api/repositories
\* The body: owner and name (present as text, or the body is not an object of
\* that shape), isActive "true", "false" or "undefined" (absent), lastSyncTime
\* "undefined", "null" or "text" (JSON carries no Date).
\* insertRepositorySchema.parse(req.body) throws unless owner and name are
\* text and lastSyncTime, a timestamp column, is absent or null.
ParsesRepository(shaped, lastSyncTime) == shaped /\ lastSyncTime # "text"

\* variant that takes every repository for valid
validateRepository_Always(exists, answered) == TRUE

\* octokit.rest.repos.get returns (the repository exists and the provider
\* answered) or throws, and every throw is turned into false
validateRepository(exists, answered) == exists /\ answered

\* isActive is "true", "false" or "undefined" (absent). The request passed
\* parse and validateRepository: createRepository, then the repository-list
\* document is loaded, extended and saved; when saving throws the document is
\* left as it was or unreadable.
AcceptRepository(key, isActive, saveOk) ==
    LET repoData == [owner |-> key[1], name |-> key[2],
                     isActive |-> isActive, lastSyncTime |-> None]
        repos == Append(loadRepositories,
                        [owner |-> repoData.owner, name |-> repoData.name,
                         isActive |-> OrTrue(repoData.isActive)])
    IN  /\ currentRepoId <= MaxRepos
        /\ repositories' = createRepository(repoData)
        /\ currentRepoId' = currentRepoId + 1
        /\ IF saveOk THEN reposFile' = Some(repos)
           ELSE reposFile' \in {reposFile, None}
        /\ hist' = Disturbed(hist)
        /\ UNCHANGED <<gen, posted, gate, postVars, clock, commits, currentCommitId, configFile,
                       source, sync, started, obs>>

\* an accepted request, not observed; a request that is rejected before
\* createRepository (invalid body, no token, repository not found) changes no
\* variable
RegisterRepository(key, isActive, saveOk) ==
    /\ AcceptRepository(key, isActive, saveOk)
    /\ UNCHANGED reg

\* The whole handler, observed: parse, getGitHubService (throws without a
\* token), validateRepository, and then either 400 or the accepted request,
\* which answers 200, or 400 when saving the document threw.
PostRepositories(key, shaped, isActive, lastSyncTime, token, exists, answered, saveOk) ==
    LET repoData == [owner |-> key[1], name |-> key[2], isActive |-> isActive]
        isValid == IF ParsesRepository(shaped, lastSyncTime) /\ token
                   THEN Some(validateRepository(exists, answered)) ELSE None
    IN  /\ reg.on
        /\ IF /\ ParsesRepository(shaped, lastSyncTime)
              /\ token
              /\ validateRepository(exists, answered)
           THEN /\ AcceptRepository(key, isActive, saveOk)
                /\ reg' = Noted(reg, repoData, exists, isValid,
                                IF saveOk THEN 200 ELSE 400, currentRepoId)
           ELSE /\ reg' = Noted(reg, repoData, exists, isValid, 400, 0)
                /\ UNCHANGED <<gen, posted, gate, postVars, clock, storeVars, fileVars, source,
                               sync, started, obs, hist>>

\* ---------------------------------------------------------- POST /api/sync
CurrentRepo(p) == sync[p].repositories[sync[p].i]

CurrentCandidate(p) == sync[p].githubCommits[sync[p].j]

\* the invocation has answered
Responded(p) == sync[p].pc \in {"done", "failed"}

\* variant that goes through the same repository again
NextRepo_Again(s) ==
    [s EXCEPT !.githubCommits = <<>>,
              !.j = 1,
              !.pc = "getCommitsSince"]

\* the per-repository pass is over: on to the next repository, or out of the loop
NextRepo(s) ==
    [s EXCEPT !.i = s.i + 1,
              !.githubCommits = <<>>,
              !.j = 1,
              !.pc = IF s.i + 1 <= Len(s.repositories)
                     THEN "getCommitsSince" ELSE "updateLastSyncTime"]

\* variant that passes over the candidate after the current one
NextCandidate_Skip(s) ==
    [s EXCEPT !.j = s.j + 2,
              !.pc = IF s.j + 2 <= Len(s.githubCommits)
                     THEN "getCommitsBySha" ELSE "updateRepository"]

\* on to the next candidate, or out of the inner loop
NextCandidate(s) ==
    [s EXCEPT !.j = s.j + 1,
              !.pc = IF s.j + 1 <= Len(s.githubCommits)
                     THEN "getCommitsBySha" ELSE "updateRepository"]

\* variant in which the error of one repository ends the loop
CatchRepoError_Abort(s, repo, error) ==
    [s EXCEPT !.errors = Append(@, <<repo.owner, repo.name, error>>),
              !.i = Len(s.repositories) + 1,
              !.githubCommits = <<>>,
              !.j = 1,
              !.pc = "updateLastSyncTime"]

\* catch (error) { errors.push(`${repo.owner}/${repo.name}: ${error}`) }
CatchRepoError(s, repo, error) ==
    NextRepo([s EXCEPT !.errors = Append(@, <<repo.owner, repo.name, error>>)])

\* variant that goes on to load the repositories without a credential
SyncStart_NoTokenCheck(p) ==
    /\ sync[p].pc \in {"idle", "done", "failed"}
    /\ started < MaxSyncs
    /\ started' = started + 1
    /\ \E token \in BOOLEAN :
          /\ sync' = [sync EXCEPT ![p] =
                         [IdleSync EXCEPT !.pc = "getActiveRepositories"]]
          /\ obs' = [obs EXCEPT ![p] =
                        [IdleObs EXCEPT !.token = token,
                                        !.preCount = Cardinality(DOMAIN commits)]]
          /\ hist' = Began(hist, FALSE)
    /\ UNCHANGED <<reqVars, gate, postVars, clock, storeVars, fileVars, source>>

\* getGitHubService() and loadConfig(), whose result is not used
SyncStart(p) ==
    /\ sync[p].pc \in {"idle", "done", "failed"}
    /\ started < MaxSyncs
    /\ started' = started + 1
    /\ \E token \in BOOLEAN :
          /\ sync' = [sync EXCEPT ![p] =
                         IF token
                         THEN [IdleSync EXCEPT !.pc = "getActiveRepositories"]
                         ELSE [IdleSync EXCEPT !.pc = "failed",
                                               !.response = Some([status |-> 500])]]
          /\ obs' = [obs EXCEPT ![p] =
                        [IdleObs EXCEPT !.token = token,
                                        !.preCount = Cardinality(DOMAIN commits)]]
          /\ hist' = Began(hist, ~token)
    /\ UNCHANGED <<reqVars, gate, postVars, clock, storeVars, fileVars, source>>

\* variant in which a repository without a checkpoint takes the global one
LoadRepositories_GlobalDefault(p) ==
    /\ sync[p].pc = "getActiveRepositories"
    /\ LET config == loadConfig
           repos == [n \in DOMAIN getActiveRepositories |->
                        IF getActiveRepositories[n].lastSyncTime = None
                        THEN [getActiveRepositories[n] EXCEPT
                                  !.lastSyncTime = config.lastSyncTime]
                        ELSE getActiveRepositories[n]]
       IN  sync' = [sync EXCEPT ![p] =
                       [@ EXCEPT !.repositories = repos,
                                 !.i = 1,
                                 !.pc = IF Len(repos) >= 1 THEN "getCommitsSince"
                                        ELSE "updateLastSyncTime"]]
    /\ obs' = [obs EXCEPT ![p].activeAtLoad =
                  {id \in DOMAIN repositories : repositories[id].isActive}]
    /\ UNCHANGED <<reqVars, gate, postVars, clock, storeVars, fileVars, source, started, hist>>

\* const repositories = await storage.getActiveRepositories()
LoadRepositories(p) ==
    /\ sync[p].pc = "getActiveRepositories"
    /\ LET repos == getActiveRepositories
       IN  sync' = [sync EXCEPT ![p] =
                       [@ EXCEPT !.repositories = repos,
                                 !.i = 1,
                                 !.pc = IF Len(repos) >= 1 THEN "getCommitsSince"
                                        ELSE "updateLastSyncTime"]]
    /\ obs' = [obs EXCEPT ![p].activeAtLoad =
                  {id \in DOMAIN repositories : repositories[id].isActive}]
    /\ UNCHANGED <<reqVars, gate, postVars, clock, storeVars, fileVars, source, started, hist>>

\* variant that always looks back seven days
lastSync_AlwaysLookback(repo) == clock - LookbackDays

\* const lastSync = repo.lastSyncTime || new Date(Date.now() - 7 days)
lastSync(repo) ==
    IF repo.lastSyncTime # None THEN repo.lastSyncTime[1] ELSE clock - LookbackDays

ListCall(repo) ==
    [kind |-> "list", repoId |-> repo.id, since |-> lastSync(repo), sha |-> ""]

DetailCall(repo, sha) ==
    [kind |-> "detail", repoId |-> repo.id, since |-> 0, sha |-> sha]

\* githubService.getCommitsSince(repo.owner, repo.name, lastSync) returns
GetCommitsSince(p) ==
    /\ sync[p].pc = "getCommitsSince"
    /\ LET repo == CurrentRepo(p)
           githubCommits == listCommits(<<repo.owner, repo.name>>, lastSync(repo))
       IN  /\ sync' = [sync EXCEPT ![p] =
                          [@ EXCEPT !.githubCommits = githubCommits,
                                    !.j = 1,
                                    !.lastCall = ListCall(repo),
                                    !.pc = IF Len(githubCommits) >= 1
                                           THEN "getCommitsBySha" ELSE "updateRepository"]]
           /\ obs' = [obs EXCEPT ![p].got =
                         MapSet(@, repo.id,
                                [n \in DOMAIN githubCommits |-> githubCommits[n].sha])]
    /\ gate' = Logged(gate, ListCall(CurrentRepo(p)), FALSE)
    /\ UNCHANGED <<reqVars, postVars, clock, storeVars, fileVars, source, started, hist>>

\* variant in which the error of the list fetch is not caught per repository
GetCommitsSinceThrows_Uncaught(p) ==
    /\ sync[p].pc = "getCommitsSince"
    /\ LET repo == CurrentRepo(p)
       IN  /\ sync' = [sync EXCEPT ![p] =
                          [@ EXCEPT !.lastCall = ListCall(repo),
                                    !.pc = "failed",
                                    !.response = Some([status |-> 500])]]
           /\ obs' = [obs EXCEPT ![p].threw = @ \cup {repo.id}]
    /\ gate' = Logged(gate, ListCall(CurrentRepo(p)), TRUE)
    /\ UNCHANGED <<reqVars, postVars, clock, storeVars, fileVars, source, started, hist>>

\* githubService.getCommitsSince throws "Failed to fetch commits"
GetCommitsSinceThrows(p) ==
    /\ sync[p].pc = "getCommitsSince"
    /\ LET repo == CurrentRepo(p)
       IN  /\ sync' = [sync EXCEPT ![p] =
                          CatchRepoError([@ EXCEPT !.lastCall = ListCall(repo)],
                                         repo, "Failed to fetch commits")]
           /\ obs' = [obs EXCEPT ![p].threw = @ \cup {repo.id}]
    /\ gate' = Logged(gate, ListCall(CurrentRepo(p)), TRUE)
    /\ UNCHANGED <<reqVars, postVars, clock, storeVars, fileVars, source, started, hist>>

\* variant that stores a candidate whose hash is known again, over the stored commit
LookupCommit_Refresh(p) ==
    /\ sync[p].pc = "getCommitsBySha"
    /\ LET existing == getCommitsBySha(CurrentCandidate(p).sha)
       IN  /\ sync' = [sync EXCEPT ![p] =
                          IF existing = None
                          THEN [@ EXCEPT !.pc = "getCommitDetails"]
                          ELSE NextCandidate(@)]
           /\ commits' = IF existing = None THEN commits
                         ELSE [commits EXCEPT ![existing[1].id] =
                                  [convertToInsertCommit(CurrentCandidate(p),
                                                         CurrentRepo(p).id)
                                   EXCEPT !.processed = FALSE] @@ [id |-> existing[1].id]]
    /\ UNCHANGED <<reqVars, gate, postVars, clock, repositories, currentRepoId, currentCommitId,
                   fileVars, source, started, obs, hist>>

\* const existing = await storage.getCommitsBySha(githubCommit.sha)
LookupCommit(p) ==
    /\ sync[p].pc = "getCommitsBySha"
    /\ LET existing == getCommitsBySha(CurrentCandidate(p).sha)
       IN  sync' = [sync EXCEPT ![p] =
                       IF existing = None
                       THEN [@ EXCEPT !.pc = "getCommitDetails"]
                       ELSE NextCandidate(@)]
    /\ UNCHANGED <<reqVars, gate, postVars, clock, storeVars, fileVars, source, started, obs, hist>>

\* getCommitDetails returns; convertToInsertCommit; createCommit; totalNewCommits++
InsertCommit(p) ==
    /\ sync[p].pc = "getCommitDetails"
    /\ LET repo == CurrentRepo(p)
           detailedCommit == CurrentCandidate(p)
           commitData == convertToInsertCommit(detailedCommit, repo.id)
       IN  /\ commits' = createCommit(commitData)
           /\ currentCommitId' = currentCommitId + 1
           /\ sync' = [sync EXCEPT ![p] =
                          NextCandidate(
                              [@ EXCEPT !.totalNewCommits = @ + 1,
                                        !.lastCall = DetailCall(repo, detailedCommit.sha)])]
    /\ gate' = Logged(gate, DetailCall(CurrentRepo(p), CurrentCandidate(p).sha), FALSE)
    /\ UNCHANGED <<reqVars, postVars, clock, repositories, currentRepoId, fileVars, source, started,
                   obs, hist>>

\* variant that writes the checkpoint in a finally block
GetCommitDetailsThrows_Finally(p) ==
    /\ sync[p].pc = "getCommitDetails"
    /\ LET repo == CurrentRepo(p)
       IN  /\ sync' = [sync EXCEPT ![p] =
                          CatchRepoError(
                              [@ EXCEPT !.lastCall =
                                            DetailCall(repo, CurrentCandidate(p).sha)],
                              repo, "Failed to fetch commit details")]
           /\ repositories' = updateRepository(repo.id, [lastSyncTime |-> Some(clock)])
           /\ obs' = [obs EXCEPT ![p].threw = @ \cup {repo.id},
                                 ![p].written = @ \cup {repo.id}]
    /\ gate' = Logged(gate, DetailCall(CurrentRepo(p), CurrentCandidate(p).sha), TRUE)
    /\ UNCHANGED <<reqVars, postVars, clock, currentRepoId, commits, currentCommitId, fileVars, source,
                   started, hist>>

\* githubService.getCommitDetails throws "Failed to fetch commit details"
GetCommitDetailsThrows(p) ==
    /\ sync[p].pc = "getCommitDetails"
    /\ LET repo == CurrentRepo(p)
       IN  /\ sync' = [sync EXCEPT ![p] =
                          CatchRepoError(
                              [@ EXCEPT !.lastCall =
                                            DetailCall(repo, CurrentCandidate(p).sha)],
                              repo, "Failed to fetch commit details")]
           /\ obs' = [obs EXCEPT ![p].threw = @ \cup {repo.id}]
    /\ gate' = Logged(gate, DetailCall(CurrentRepo(p), CurrentCandidate(p).sha), TRUE)
    /\ UNCHANGED <<reqVars, postVars, clock, storeVars, fileVars, source, started, hist>>

\* storage.getCommitsBySha rejects (a store that can fail): the catch of the
\* repository's try captures it
LookupCommitThrows(p) ==
    /\ sync[p].pc = "getCommitsBySha"
    /\ LET repo == CurrentRepo(p)
       IN  /\ sync' = [sync EXCEPT ![p] = CatchRepoError(@, repo, "Failed to read commit")]
           /\ obs' = [obs EXCEPT ![p].threw = @ \cup {repo.id}]
    /\ UNCHANGED <<reqVars, gate, postVars, clock, storeVars, fileVars, source, started, hist>>

\* variant that takes back the commits the invocation inserted so far
CreateCommitThrows_Rollback(p) ==
    /\ sync[p].pc = "getCommitDetails"
    /\ LET repo == CurrentRepo(p)
       IN  /\ sync' = [sync EXCEPT ![p] =
                          CatchRepoError(
                              [@ EXCEPT !.lastCall =
                                            DetailCall(repo, CurrentCandidate(p).sha),
                                        !.totalNewCommits = 0],
                              repo, "Failed to store commit")]
           /\ commits' = [c \in {x \in DOMAIN commits : x <= obs[p].preCount} |->
                              commits[c]]
           /\ obs' = [obs EXCEPT ![p].threw = @ \cup {repo.id}]
    /\ gate' = Logged(gate, DetailCall(CurrentRepo(p), CurrentCandidate(p).sha), FALSE)
    /\ UNCHANGED <<reqVars, postVars, clock, repositories, currentRepoId, currentCommitId,
                   fileVars, source, started, hist>>

\* getCommitDetails returns and storage.createCommit rejects (a store that can
\* fail): nothing is inserted and the catch of the repository's try captures it
CreateCommitThrows(p) ==
    /\ sync[p].pc = "getCommitDetails"
    /\ LET repo == CurrentRepo(p)
       IN  /\ sync' = [sync EXCEPT ![p] =
                          CatchRepoError(
                              [@ EXCEPT !.lastCall =
                                            DetailCall(repo, CurrentCandidate(p).sha)],
                              repo, "Failed to store commit")]
           /\ commits' = commits
           /\ obs' = [obs EXCEPT ![p].threw = @ \cup {repo.id}]
    /\ gate' = Logged(gate, DetailCall(CurrentRepo(p), CurrentCandidate(p).sha), FALSE)
    /\ UNCHANGED <<reqVars, postVars, clock, repositories, currentRepoId, currentCommitId,
                   fileVars, source, started, hist>>

\* await storage.updateRepository(repo.id, { lastSyncTime: new Date() })
UpdateRepositoryCheckpoint(p) ==
    /\ sync[p].pc = "updateRepository"
    /\ LET repo == CurrentRepo(p)
       IN  /\ repositories' = updateRepository(repo.id, [lastSyncTime |-> Some(clock)])
           /\ obs' = [obs EXCEPT ![p].written = @ \cup {repo.id}]
    /\ sync' = [sync EXCEPT ![p] = NextRepo(@)]
    /\ UNCHANGED <<reqVars, gate, postVars, clock, currentRepoId, commits, currentCommitId, fileVars, source,
                   started, hist>>

\* variant that starts from the default document instead of the saved one
UpdateLastSyncTime_Defaults(p) ==
    /\ sync[p].pc = "updateLastSyncTime"
    /\ sync' = [sync EXCEPT ![p] =
                   [@ EXCEPT !.timestamp = clock,
                             !.config = Some(getDefaultConfig),
                             !.pc = "saveConfig"]]
    /\ UNCHANGED <<reqVars, gate, postVars, clock, storeVars, fileVars, source, started, obs, hist>>

\* configManager.updateLastSyncTime(new Date()): the timestamp is taken and
\* the config document loaded
UpdateLastSyncTime(p) ==
    /\ sync[p].pc = "updateLastSyncTime"
    /\ sync' = [sync EXCEPT ![p] =
                   [@ EXCEPT !.timestamp = clock,
                             !.config = Some(loadConfig),
                             !.pc = "saveConfig"]]
    /\ UNCHANGED <<reqVars, gate, postVars, clock, storeVars, fileVars, source, started, obs, hist>>

\* variant that counts only the repositories that did not fail
SyncResponse_CountOk(s) ==
    [status |-> 200,
     newCommits |-> s.totalNewCommits,
     repositoriesProcessed |-> Len(s.repositories) - Len(s.errors),
     errors |-> IF Len(s.errors) > 0 THEN Some(s.errors) ELSE None]

\* res.json({ success, newCommits, repositoriesProcessed, errors })
SyncResponse(s) ==
    [status |-> 200,
     newCommits |-> s.totalNewCommits,
     repositoriesProcessed |-> Len(s.repositories),
     errors |-> IF Len(s.errors) > 0 THEN Some(s.errors) ELSE None]

\* variant that saves the document as loaded, without the new timestamp
SaveConfig_Stale(p) ==
    /\ sync[p].pc = "saveConfig"
    /\ configFile' = Some(sync[p].config[1])
    /\ sync' = [sync EXCEPT ![p] =
                   [@ EXCEPT !.pc = "done", !.response = Some(SyncResponse(sync[p]))]]
    /\ hist' = Ended(hist, obs[p].threw)
    /\ UNCHANGED <<reqVars, gate, postVars, clock, storeVars, reposFile, source, started, obs>>

\* config.lastSyncTime = timestamp; saveConfig(config) succeeds; the response
SaveConfig(p) ==
    /\ sync[p].pc = "saveConfig"
    /\ configFile' = Some([sync[p].config[1] EXCEPT
                               !.lastSyncTime = Some(sync[p].timestamp)])
    /\ sync' = [sync EXCEPT ![p] =
                   [@ EXCEPT !.pc = "done", !.response = Some(SyncResponse(sync[p]))]]
    /\ hist' = Ended(hist, obs[p].threw)
    /\ UNCHANGED <<reqVars, gate, postVars, clock, storeVars, reposFile, source, started, obs>>

\* saveConfig throws "Failed to save config": the outer catch answers 500; the
\* document is left as it was or unreadable
SaveConfigThrows(p) ==
    /\ sync[p].pc = "saveConfig"
    /\ configFile' \in {configFile, None}
    /\ sync' = [sync EXCEPT ![p] =
                   [@ EXCEPT !.pc = "failed", !.response = Some([status |-> 500])]]
    /\ obs' = [obs EXCEPT ![p].saveThrew = TRUE]
    /\ hist' = Ended(hist, obs[p].threw)
    /\ UNCHANGED <<reqVars, gate, postVars, clock, storeVars, reposFile, source, started>>

\* --------------------------------------------------------- POST /api/config
\* req.body.config: absent, or a settings document (lastSyncTime is optional
\* and left out)
ConfigInputs ==
    {None} \cup
    {Some([lastSyncTime |-> None, syncInterval |-> s, autoPublish |-> a]) :
        s \in {6, 12}, a \in BOOLEAN}

\* req.body.repositories: absent, or an array
RepositoriesInputs ==
    {None, Some(<<[owner |-> "acme", name |-> "widgets", isActive |-> TRUE]>>)}

\* if (config) saveConfig(config); if (repos) saveRepositories(repos); a
\* failed write throws, leaves the document as it was or unreadable, and the
\* catch answers 500 before the second document is reached
PostConfig(config, repos, configOk, reposOk) ==
    /\ IF config = None
       THEN UNCHANGED <<configFile, posted>>
       ELSE IF configOk
            THEN /\ configFile' = config
                 /\ posted' = [doc |-> config,
                               overtook |-> \E p \in DOMAIN sync : sync[p].pc = "saveConfig",
                               intact |-> TRUE]
            ELSE /\ configFile' \in {configFile, None}
                 /\ posted' = [posted EXCEPT !.intact = FALSE]
    /\ IF repos = None \/ (config # None /\ ~configOk)
       THEN UNCHANGED reposFile
       ELSE IF reposOk
            THEN reposFile' = repos
            ELSE reposFile' \in {reposFile, None}
    /\ UNCHANGED <<reg, gen, gate, postVars, clock, storeVars, source, sync, started, obs, hist>>

\* ------------------------------------------------------ POST /api/blog-posts
\* JSON values of commitsIncluded: an array of elements or another truthy value.
\* An element is an object { id: n } (n = 0: no id, or a falsy one) or the bare
\* number n.
JsonArray(items) == [array |-> TRUE, items |-> items]

JsonObject == [array |-> FALSE, items |-> <<>>]

Obj(n) == [kind |-> "object", id |-> n]

Num(n) == [kind |-> "number", id |-> n]

CommitsIncludedInputs ==
    { None,
      Some(JsonArray(<<Obj(1)>>)),
      Some(JsonArray(<<Obj(2), Obj(3), Obj(0)>>)),
      Some(JsonArray(<<Num(1), Num(2)>>)),
      Some(JsonObject) }

\* status and hivePostId of a request body: a draft, a scheduled post, a post
\* recorded as already published elsewhere
StatusInputs ==
    { [status |-> "undefined", hivePostId |-> None],
      [status |-> "scheduled", hivePostId |-> None],
      [status |-> "published", hivePostId |-> Some(0)] }

\* insertBlogPostSchema.parse(req.body) succeeds (a body it rejects is answered
\* 400 and changes nothing); publishedAt, a Date, cannot come in a JSON body
CreateBlogPost(body, commitsIncluded) ==
    LET postData == [status |-> body.status, hivePostId |-> body.hivePostId,
                     publishedAt |-> None, commitsIncluded |-> commitsIncluded]
    IN  /\ currentPostId <= MaxPosts
        /\ blogPosts' = createBlogPost(postData)
        /\ currentPostId' = currentPostId + 1
        /\ UNCHANGED <<reqVars, gate, clock, storeVars, fileVars, source, sync, started, obs, hist,
                       pub, hive>>

\* ---------------------------------------------------- POST /api/publish/:id
\* c.id of an element c: undefined (0 here) for a bare number
PropId(c) == IF c.kind = "object" THEN c.id ELSE 0

\* Array.isArray(x) ? x.map(c => c.id).filter(Boolean) : [], for a truthy x;
\* nothing for null
commitIds(post) ==
    IF post.commitsIncluded = None THEN <<>>
    ELSE LET x == post.commitsIncluded[1]
         IN  IF x.array
             THEN SelectSeq([n \in DOMAIN x.items |-> PropId(x.items[n])],
                            LAMBDA id : id # 0)
             ELSE <<>>

\* variant that records the post as published before it looks for the posting key
PublishStart_MarkFirst(postId, postingKey) ==
    /\ pub.pc \in {"idle", "done"}
    /\ pub.requests < MaxPublish
    /\ LET post == getBlogPost(postId)
           begun == [IdlePub EXCEPT !.postId = postId, !.post = post,
                                    !.requests = pub.requests + 1]
       IN  /\ pub' = IF post = None
                     THEN [begun EXCEPT !.pc = "done", !.response = Some([status |-> 404])]
                     ELSE IF ~postingKey
                     THEN [begun EXCEPT !.pc = "done", !.response = Some([status |-> 500])]
                     ELSE [begun EXCEPT !.pc = "publishPost"]
           /\ blogPosts' = updateBlogPost(postId,
                                          [status |-> "published",
                                           publishedAt |-> Some(clock),
                                           hivePostId |-> None])
    /\ UNCHANGED <<reqVars, gate, clock, storeVars, fileVars, source, sync, started, obs, hist,
                   currentPostId, hive>>

\* const post = await storage.getBlogPost(postId); 404 without it;
\* getHiveService() throws without a posting key: 500
PublishStart(postId, postingKey) ==
    /\ pub.pc \in {"idle", "done"}
    /\ pub.requests < MaxPublish
    /\ LET post == getBlogPost(postId)
           begun == [IdlePub EXCEPT !.postId = postId, !.post = post,
                                    !.requests = pub.requests + 1]
       IN  pub' = IF post = None
                  THEN [begun EXCEPT !.pc = "done", !.response = Some([status |-> 404])]
                  ELSE IF ~postingKey
                  THEN [begun EXCEPT !.pc = "done", !.response = Some([status |-> 500])]
                  ELSE [begun EXCEPT !.pc = "publishPost"]
    /\ UNCHANGED <<reqVars, gate, clock, storeVars, fileVars, source, sync, started, obs, hist,
                   blogPosts, currentPostId, hive>>

\* hiveService.publishPost returns { success: true, postId, url }: the network
\* has accepted the post under a new identifier
PublishPostSucceeds ==
    /\ pub.pc = "publishPost"
    /\ hive' = Append(hive, pub.postId)
    /\ pub' = [pub EXCEPT !.result = Some([success |-> TRUE, postId |-> Len(hive) + 1]),
                          !.pc = "updateBlogPost"]
    /\ UNCHANGED <<reqVars, gate, clock, storeVars, fileVars, source, sync, started, obs, hist,
                   blogPosts, currentPostId>>

\* variant that puts the post back to draft when the network refuses it
PublishPostFails_Revert ==
    /\ pub.pc = "publishPost"
    /\ pub' = [pub EXCEPT !.result = Some([success |-> FALSE, postId |-> 0]),
                          !.pc = "done",
                          !.response = Some([status |-> 500])]
    /\ blogPosts' = updateBlogPost(pub.postId,
                                   [status |-> "draft", publishedAt |-> None,
                                    hivePostId |-> None])
    /\ UNCHANGED <<reqVars, gate, clock, storeVars, fileVars, source, sync, started, obs, hist,
                   currentPostId, hive>>

\* hiveService.publishPost returns { success: false, error }: 500
PublishPostFails ==
    /\ pub.pc = "publishPost"
    /\ pub' = [pub EXCEPT !.result = Some([success |-> FALSE, postId |-> 0]),
                          !.pc = "done",
                          !.response = Some([status |-> 500])]
    /\ UNCHANGED <<reqVars, gate, clock, storeVars, fileVars, source, sync, started, obs, hist,
                   blogPosts, currentPostId, hive>>

\* res.json({ success: true, postUrl, hivePostId })
PublishResponse(result) == [status |-> 200, hivePostId |-> result.postId]

\* variant that records identifier and timestamp but leaves the status as it was
UpdatePublishedPost_KeepStatus ==
    /\ pub.pc = "updateBlogPost"
    /\ blogPosts' = updateBlogPost(pub.postId,
                                   [status |-> blogPosts[pub.postId].status,
                                    publishedAt |-> Some(clock),
                                    hivePostId |-> Some(pub.result[1].postId)])
    /\ pub' = IF Len(commitIds(pub.post[1])) > 0
              THEN [pub EXCEPT !.pc = "markCommitsAsProcessed"]
              ELSE [pub EXCEPT !.pc = "done",
                               !.response = Some(PublishResponse(pub.result[1]))]
    /\ UNCHANGED <<reqVars, gate, clock, storeVars, fileVars, source, sync, started, obs, hist,
                   currentPostId, hive>>

\* await storage.updateBlogPost(postId, { status, publishedAt, hivePostId });
\* the commit ids are read from the post as it was loaded
UpdatePublishedPost ==
    /\ pub.pc = "updateBlogPost"
    /\ blogPosts' = updateBlogPost(pub.postId,
                                   [status |-> "published",
                                    publishedAt |-> Some(clock),
                                    hivePostId |-> Some(pub.result[1].postId)])
    /\ pub' = IF Len(commitIds(pub.post[1])) > 0
              THEN [pub EXCEPT !.pc = "markCommitsAsProcessed"]
              ELSE [pub EXCEPT !.pc = "done",
                               !.response = Some(PublishResponse(pub.result[1]))]
    /\ UNCHANGED <<reqVars, gate, clock, storeVars, fileVars, source, sync, started, obs, hist,
                   currentPostId, hive>>

\* await storage.markCommitsAsProcessed(commitIds); the response
MarkCommitsAsProcessed ==
    /\ pub.pc = "markCommitsAsProcessed"
    /\ commits' = markCommitsAsProcessed(commitIds(pub.post[1]))
    /\ pub' = [pub EXCEPT !.pc = "done",
                          !.response = Some(PublishResponse(pub.result[1]))]
    /\ UNCHANGED <<reqVars, gate, clock, repositories, currentRepoId, currentCommitId, fileVars,
                   source, sync, started, obs, hist, blogPosts, currentPostId, hive>>

\* ---------------------------------------------------------- specification
\* Invocations of POST /api/sync one after the other (one process), none
\* overlapping another.  A registration whose save of repos.json fails is left
\* to the registration claims: the synchronisation never reads that document.
Next ==
    \/ Tick
    \/ \E key \in RepoKeys, sha \in Shas : Push(key, sha)
    \/ \E key \in RepoKeys, isActive \in {"true", "false", "undefined"} :
          RegisterRepository(key, isActive, TRUE)
    \/ \E p \in Procs :
          \/ SyncStart(p)
          \/ LoadRepositories(p)
          \/ GetCommitsSince(p)
          \/ GetCommitsSinceThrows(p)
          \/ LookupCommit(p)
          \/ InsertCommit(p)
          \/ GetCommitDetailsThrows(p)
          \/ UpdateRepositoryCheckpoint(p)
          \/ UpdateLastSyncTime(p)
          \/ SaveConfig(p)
          \/ SaveConfigThrows(p)

Spec == Init /\ [][Next]_vars

\* the same program, with the observer of runs in succession switched on
InitTwice ==
    /\ clock = 0
    /\ repositories = <<>>
    /\ currentRepoId = 1
    /\ commits = <<>>
    /\ currentCommitId = 1
    /\ configFile = None
    /\ reposFile = None
    /\ source = [k \in RepoKeys |-> <<>>]
    /\ sync = [p \in Procs |-> IdleSync]
    /\ started = 0
    /\ obs = [p \in Procs |-> IdleObs]
    /\ hist = [NoHist EXCEPT !.on = TRUE]
    /\ InitPosts
    /\ reg = NoReg
    /\ gen = IdleGen
    /\ posted = NotPosted
    /\ gate = NoGate

SpecTwice == InitTwice /\ [][Next]_vars

\* ------------------------------------------- one repository, a long history
\* the n-th commit of a long history
LongCommit(n) == [sha |-> ToString(n), date |-> 0]

\* One invocation of POST /api/sync has answered while no repository was
\* registered; then POST /api/repositories has registered acme/widgets. The
\* external source holds PerPage or PerPage + 1 commits for it, all dated 0.
InitPage ==
    /\ clock = 0
    /\ repositories = <<[id |-> 1, owner |-> "acme", name |-> "widgets",
                         isActive |-> TRUE, lastSyncTime |-> None]>>
    /\ currentRepoId = 2
    /\ commits = <<>>
    /\ currentCommitId = 1
    /\ configFile = Some([getDefaultConfig EXCEPT !.lastSyncTime = Some(0)])
    /\ reposFile = Some(Append(getDefaultRepositories,
                               [owner |-> "acme", name |-> "widgets", isActive |-> TRUE]))
    /\ \E n \in {PerPage, PerPage + 1} :
          source = [k \in RepoKeys |->
                       IF k = <<"acme", "widgets">>
                       THEN [m \in 1..n |-> LongCommit(n + 1 - m)]
                       ELSE <<>>]
    /\ sync = [p \in Procs |->
                  [IdleSync EXCEPT !.pc = "done",
                                   !.config = Some(getDefaultConfig),
                                   !.response = Some(SyncResponse(IdleSync))]]
    /\ started = 1
    /\ obs = [p \in Procs |-> IdleObs]
    /\ hist = NoHist
    /\ InitPosts
    /\ reg = NoReg
    /\ gen = IdleGen
    /\ posted = NotPosted
    /\ gate = NoGate

\* invocations of POST /api/sync one after the other, nothing else
NextPage ==
    \E p \in Procs :
        \/ SyncStart(p)
        \/ LoadRepositories(p)
        \/ GetCommitsSince(p)
        \/ GetCommitsSinceThrows(p)
        \/ LookupCommit(p)
        \/ InsertCommit(p)
        \/ GetCommitDetailsThrows(p)
        \/ UpdateRepositoryCheckpoint(p)
        \/ UpdateLastSyncTime(p)
        \/ SaveConfig(p)
        \/ SaveConfigThrows(p)

SpecPage == InitPage /\ [][NextPage]_vars

\* ------------------------------------------------ overlapping invocations
\* two requests to POST /api/sync whose handlers interleave at their awaits
RaceProcs == {1, 2}

\* POST /api/repositories has registered acme/widgets, and the external source
\* holds one commit for it
InitRace ==
    /\ clock = 0
    /\ repositories = <<[id |-> 1, owner |-> "acme", name |-> "widgets",
                         isActive |-> TRUE, lastSyncTime |-> None]>>
    /\ currentRepoId = 2
    /\ commits = <<>>
    /\ currentCommitId = 1
    /\ configFile = None
    /\ reposFile = Some(Append(getDefaultRepositories,
                               [owner |-> "acme", name |-> "widgets", isActive |-> TRUE]))
    /\ source = [k \in RepoKeys |->
                    IF k = <<"acme", "widgets">> THEN <<[sha |-> "aaa", date |-> 0]>>
                    ELSE <<>>]
    /\ sync = [p \in RaceProcs |-> IdleSync]
    /\ started = 0
    /\ obs = [p \in RaceProcs |-> IdleObs]
    /\ hist = NoHist
    /\ InitPosts
    /\ reg = NoReg
    /\ gen = IdleGen
    /\ posted = NotPosted
    /\ gate = NoGate

NextRace ==
    \E p \in RaceProcs :
        \/ SyncStart(p)
        \/ LoadRepositories(p)
        \/ GetCommitsSince(p)
        \/ GetCommitsSinceThrows(p)
        \/ LookupCommit(p)
        \/ InsertCommit(p)
        \/ GetCommitDetailsThrows(p)
        \/ UpdateRepositoryCheckpoint(p)
        \/ UpdateLastSyncTime(p)
        \/ SaveConfig(p)
        \/ SaveConfigThrows(p)

SpecRace == InitRace /\ [][NextRace]_vars

\* ------------------------------------------------------- sync and publish
\* POST /api/repositories has registered acme/widgets, and the external source
\* holds two commits for it
InitPublish ==
    /\ clock = 0
    /\ repositories = <<[id |-> 1, owner |-> "acme", name |-> "widgets",
                         isActive |-> TRUE, lastSyncTime |-> None]>>
    /\ currentRepoId = 2
    /\ commits = <<>>
    /\ currentCommitId = 1
    /\ configFile = None
    /\ reposFile = Some(Append(getDefaultRepositories,
                               [owner |-> "acme", name |-> "widgets", isActive |-> TRUE]))
    /\ source = [k \in RepoKeys |->
                    IF k = <<"acme", "widgets">>
                    THEN <<[sha |-> "bbb", date |-> 0], [sha |-> "aaa", date |-> 0]>>
                    ELSE <<>>]
    /\ sync = [p \in Procs |-> IdleSync]
    /\ started = 0
    /\ obs = [p \in Procs |-> IdleObs]
    /\ hist = NoHist
    /\ InitPosts
    /\ reg = NoReg
    /\ gen = IdleGen
    /\ posted = NotPosted
    /\ gate = NoGate

\* requests to POST /api/sync, POST /api/blog-posts and POST /api/publish/:id,
\* the handlers of a sync and of a publish interleaved at their awaits
NextPublish ==
    \/ \E p \in Procs :
          \/ SyncStart(p)
          \/ LoadRepositories(p)
          \/ GetCommitsSince(p)
          \/ GetCommitsSinceThrows(p)
          \/ LookupCommit(p)
          \/ InsertCommit(p)
          \/ GetCommitDetailsThrows(p)
          \/ UpdateRepositoryCheckpoint(p)
          \/ UpdateLastSyncTime(p)
          \/ SaveConfig(p)
          \/ SaveConfigThrows(p)
    \/ \E body \in StatusInputs, commitsIncluded \in CommitsIncludedInputs :
          CreateBlogPost(body, commitsIncluded)
    \/ \E postId \in 1..(MaxPosts + 1), postingKey \in BOOLEAN :
          PublishStart(postId, postingKey)
    \/ PublishPostSucceeds
    \/ PublishPostFails
    \/ UpdatePublishedPost
    \/ MarkCommitsAsProcessed

SpecPublish == InitPublish /\ [][NextPublish]_vars

\* ------------------------------------------- the dashboard's publish flow
\* the bodies the preview dialog posts: handleSaveDraft sends status "draft",
\* handlePublish sends status "published" and then requests the publish of
\* the post it created; neither sends hivePostId or commitsIncluded
DashboardInputs ==
    { [status |-> "draft", hivePostId |-> None],
      [status |-> "published", hivePostId |-> None] }

\* requests to POST /api/blog-posts, from the dashboard or another client,
\* and to POST /api/publish/:id
NextDashboard ==
    \/ \E body \in DashboardInputs \cup StatusInputs,
          commitsIncluded \in CommitsIncludedInputs :
          CreateBlogPost(body, commitsIncluded)
    \/ \E postId \in 1..(MaxPosts + 1), postingKey \in BOOLEAN :
          PublishStart(postId, postingKey)
    \/ PublishPostSucceeds
    \/ PublishPostFails
    \/ UpdatePublishedPost
    \/ MarkCommitsAsProcessed

SpecDashboard == InitPublish /\ [][NextDashboard]_vars

\* ------------------------------------- two runs that differ in the config
\* config documents that differ only in the global lastSyncTime
GateConfigs ==
    { Some(getDefaultConfig),
      Some([getDefaultConfig EXCEPT !.lastSyncTime = Some(0)]),
      Some([getDefaultConfig EXCEPT !.lastSyncTime = Some(1)]) }

\* At time 1, after earlier requests: acme/widgets and acme/gadgets are
\* registered, each with or without a checkpoint of time 0; the source holds a
\* commit of time 1 for the first and a commit of time 0 for the second, which
\* is stored or not when its repository has a checkpoint; the config document
\* holds any global lastSyncTime.
InitGate ==
    /\ clock = 1
    /\ \E w \in {None, Some(0)}, g \in {None, Some(0)} :
          repositories = <<[id |-> 1, owner |-> "acme", name |-> "widgets",
                            isActive |-> TRUE, lastSyncTime |-> w],
                           [id |-> 2, owner |-> "acme", name |-> "gadgets",
                            isActive |-> TRUE, lastSyncTime |-> g]>>
    /\ currentRepoId = 3
    /\ \/ commits = <<>> /\ currentCommitId = 1
       \/ /\ repositories[2].lastSyncTime # None
          /\ commits = <<[id |-> 1, repositoryId |-> 2, sha |-> "bbb", date |-> 0,
                          processed |-> FALSE]>>
          /\ currentCommitId = 2
    /\ configFile \in GateConfigs
    /\ reposFile = Some(getDefaultRepositories \o
                        <<[owner |-> "acme", name |-> "widgets", isActive |-> TRUE],
                          [owner |-> "acme", name |-> "gadgets", isActive |-> TRUE]>>)
    /\ source = [k \in RepoKeys |->
                    IF k = <<"acme", "widgets">> THEN <<[sha |-> "aaa", date |-> 1]>>
                    ELSE <<[sha |-> "bbb", date |-> 0]>>]
    /\ sync = [p \in Procs |-> IdleSync]
    /\ started = 0
    /\ obs = [p \in Procs |-> IdleObs]
    /\ hist = NoHist
    /\ InitPosts
    /\ reg = NoReg
    /\ gen = IdleGen
    /\ posted = NotPosted
    /\ gate = [NoGate EXCEPT !.on = TRUE,
                             !.snap = [repositories |-> repositories,
                                       commits |-> commits,
                                       currentCommitId |-> currentCommitId],
                             !.firstConfig = loadConfig.lastSyncTime]

\* The first run has answered: the store is put back as that run found it, the
\* config document is given another global lastSyncTime, and the second run
\* can begin.
Rewind(p) ==
    /\ gate.on
    /\ gate.phase = 1
    /\ started = 1
    /\ Responded(p)
    /\ \E doc \in GateConfigs :
          /\ doc[1].lastSyncTime # gate.firstConfig
          /\ configFile' = doc
          /\ gate' = [gate EXCEPT !.phase = 2,
                                  !.first = [token |-> obs[p].token,
                                             log |-> gate.log,
                                             repositories |-> repositories,
                                             commits |-> commits],
                                  !.log = <<>>,
                                  !.secondConfig = doc[1].lastSyncTime]
    /\ repositories' = gate.snap.repositories
    /\ commits' = gate.snap.commits
    /\ currentCommitId' = gate.snap.currentCommitId
    /\ sync' = [sync EXCEPT ![p] = IdleSync]
    /\ obs' = [obs EXCEPT ![p] = IdleObs]
    /\ UNCHANGED <<reqVars, postVars, clock, currentRepoId, reposFile, source, started, hist>>

NextGate ==
    \E p \in Procs :
        \/ SyncStart(p)
        \/ LoadRepositories(p)
        \/ GetCommitsSince(p)
        \/ GetCommitsSinceThrows(p)
        \/ LookupCommit(p)
        \/ InsertCommit(p)
        \/ GetCommitDetailsThrows(p)
        \/ UpdateRepositoryCheckpoint(p)
        \/ UpdateLastSyncTime(p)
        \/ SaveConfig(p)
        \/ SaveConfigThrows(p)
        \/ Rewind(p)

SpecGate == InitGate /\ [][NextGate]_vars

\* ----------------------------------------------- POST /api/generate-summary
\* JSON values as far as the handler tells them apart: null, an object with
\* the properties title, content, summary, tags (each Some(value) or None when
\* absent or falsy), and any other value (array, number, text), on which
\* reading a property gives undefined.
JsonNull == [type |-> "null"]

JsonValue == [type |-> "other"]

JsonFields(title, content, summary, tags) ==
    [type |-> "object", title |-> title, content |-> content, summary |-> summary,
     tags |-> tags]

\* the messages the language model returns: text that is no JSON, JSON that
\* is no object, and objects with all, some or none of the properties
ModelTexts ==
    {"", "Here is your post", "{\"title\": \"Report\"", "null", "[]", "{}",
     "{\"title\":\"Report\"}", "{\"content\":\"Body\",\"tags\":[\"hive\"]}",
     "{\"title\":\"Report\",\"content\":\"Body\",\"summary\":\"Short\",\"tags\":[\"hive\"]}"}

\* JSON.parse(text): Some(value), or None when it throws a SyntaxError
JSONparse(text) ==
    CASE text = "null" -> Some(JsonNull)
      [] text = "[]" -> Some(JsonValue)
      [] text = "{}" -> Some(JsonFields(None, None, None, None))
      [] text = "{\"title\":\"Report\"}" ->
             Some(JsonFields(Some("Report"), None, None, None))
      [] text = "{\"content\":\"Body\",\"tags\":[\"hive\"]}" ->
             Some(JsonFields(None, Some("Body"), None, Some(<<"hive">>)))
      [] text = "{\"title\":\"Report\",\"content\":\"Body\",\"summary\":\"Short\",\"tags\":[\"hive\"]}" ->
             Some(JsonFields(Some("Report"), Some("Body"), Some("Short"), Some(<<"hive">>)))
      [] OTHER -> None

\* result.name || fallback, for a result that is not null
OrElse(result, name, fallback) ==
    IF result.type = "object" /\ result[name] # None THEN result[name][1] ELSE fallback

\* OpenAIService.generateDevlogSummary once chat.completions.create returned a
\* message with this content (None: null): Some(summary), or None when it
\* throws "Failed to generate AI summary"
generateDevlogSummary(content, total_tokens) ==
    LET text == IF content = None \/ content = Some("") THEN "{}" ELSE content[1]
        parsed == JSONparse(text)
    IN  IF parsed = None THEN None
        ELSE IF parsed[1].type = "null" THEN None
        ELSE Some([title |-> OrElse(parsed[1], "title", "Development Update"),
                   content |-> OrElse(parsed[1], "content", ""),
                   summary |-> OrElse(parsed[1], "summary", ""),
                   tags |-> OrElse(parsed[1], "tags",
                                   <<"skatehive", "development", "web3">>),
                   tokensUsed |-> total_tokens])

\* MemStorage.getCommitsSince(since): the ids of the stored commits dated since or later
getCommitsSince(since) == {id \in DOMAIN commits : commits[id].date >= since}

\* The whole handler: sinceDate is None (absent) or Some(date); 400 when no
\* stored commit is dated since or later; 500 when no API key is configured,
\* when the request to the language model throws (answered = FALSE) and when
\* generateDevlogSummary throws; else 200 with the summary.
GenerateSummary(sinceDate, apiKey, answered, content) ==
    LET since == IF sinceDate # None THEN sinceDate[1] ELSE clock - LookbackDays
        summary == generateDevlogSummary(content, 1)
    IN  /\ gen' = IF getCommitsSince(since) = {}
                  THEN [content |-> None, asked |-> FALSE,
                        response |-> Some([status |-> 400, summary |-> None])]
                  ELSE IF ~apiKey \/ ~answered
                  THEN [content |-> None, asked |-> FALSE,
                        response |-> Some([status |-> 500, summary |-> None])]
                  ELSE [content |-> content, asked |-> TRUE,
                        response |-> IF summary = None
                                     THEN Some([status |-> 500, summary |-> None])
                                     ELSE Some([status |-> 200, summary |-> summary])]
        /\ UNCHANGED <<reg, posted, gate, postVars, clock, storeVars, fileVars, source, sync,
                       started, obs, hist>>

\* requests to POST /api/sync and POST /api/generate-summary
NextSummary ==
    \/ \E p \in Procs :
          \/ SyncStart(p)
          \/ LoadRepositories(p)
          \/ GetCommitsSince(p)
          \/ GetCommitsSinceThrows(p)
          \/ LookupCommit(p)
          \/ InsertCommit(p)
          \/ GetCommitDetailsThrows(p)
          \/ UpdateRepositoryCheckpoint(p)
          \/ UpdateLastSyncTime(p)
          \/ SaveConfig(p)
          \/ SaveConfigThrows(p)
    \/ \E sinceDate \in {None, Some(0), Some(1)}, apiKey, answered \in BOOLEAN,
          content \in {None} \cup {Some(t) : t \in ModelTexts} :
          GenerateSummary(sinceDate, apiKey, answered, content)

SpecSummary == InitPublish /\ [][NextSummary]_vars

\* ------------------------------------------- sync under fair scheduling
\* After earlier requests: acme/widgets and acme/gadgets are registered, the
\* second with or without a checkpoint; the source holds one commit for the
\* first and more can become visible while a sync runs.
InitLive ==
    /\ clock = 0
    /\ \E g \in {None, Some(0)} :
          repositories = <<[id |-> 1, owner |-> "acme", name |-> "widgets",
                            isActive |-> TRUE, lastSyncTime |-> None],
                           [id |-> 2, owner |-> "acme", name |-> "gadgets",
                            isActive |-> TRUE, lastSyncTime |-> g]>>
    /\ currentRepoId = 3
    /\ commits = <<>>
    /\ currentCommitId = 1
    /\ configFile = None
    /\ reposFile = Some(getDefaultRepositories \o
                        <<[owner |-> "acme", name |-> "widgets", isActive |-> TRUE],
                          [owner |-> "acme", name |-> "gadgets", isActive |-> TRUE]>>)
    /\ source = [k \in RepoKeys |->
                    IF k = <<"acme", "widgets">> THEN <<[sha |-> "aaa", date |-> 0]>>
                    ELSE <<>>]
    /\ sync = [p \in Procs |-> IdleSync]
    /\ started = 0
    /\ obs = [p \in Procs |-> IdleObs]
    /\ hist = NoHist
    /\ InitPosts
    /\ reg = NoReg
    /\ gen = IdleGen
    /\ posted = NotPosted
    /\ gate = NoGate

\* a step of a running invocation: the call it awaits returns or throws
SyncStep(p) ==
    \/ LoadRepositories(p)
    \/ GetCommitsSince(p)
    \/ GetCommitsSinceThrows(p)
    \/ LookupCommit(p)
    \/ InsertCommit(p)
    \/ GetCommitDetailsThrows(p)
    \/ UpdateRepositoryCheckpoint(p)
    \/ UpdateLastSyncTime(p)
    \/ SaveConfig(p)
    \/ SaveConfigThrows(p)

NextLive ==
    \/ Tick
    \/ \E key \in RepoKeys, sha \in Shas : Push(key, sha)
    \/ \E p \in Procs : SyncStart(p)
    \/ \E p \in Procs : SyncStep(p)

\* every call a running invocation awaits eventually returns or throws
SpecLive == InitLive /\ [][NextLive]_vars /\ \A p \in Procs : WF_vars(SyncStep(p))

\* ------------------------------------------- a failed pass and the next sync
\* After earlier requests: acme/widgets is registered, with no checkpoint or
\* with one as old as the lookback, and acme/gadgets with none; the source
\* holds for the first a commit of now and one as old as the lookback, for the
\* second one commit. The source does not change.
InitRetry ==
    /\ clock = 0
    /\ \E w \in {None, Some(0 - LookbackDays)} :
          repositories = <<[id |-> 1, owner |-> "acme", name |-> "widgets",
                            isActive |-> TRUE, lastSyncTime |-> w],
                           [id |-> 2, owner |-> "acme", name |-> "gadgets",
                            isActive |-> TRUE, lastSyncTime |-> None]>>
    /\ currentRepoId = 3
    /\ commits = <<>>
    /\ currentCommitId = 1
    /\ configFile = None
    /\ reposFile = Some(getDefaultRepositories \o
                        <<[owner |-> "acme", name |-> "widgets", isActive |-> TRUE],
                          [owner |-> "acme", name |-> "gadgets", isActive |-> TRUE]>>)
    /\ source = [k \in RepoKeys |->
                    IF k = <<"acme", "widgets">>
                    THEN <<[sha |-> "bbb", date |-> 0],
                           [sha |-> "aaa", date |-> 0 - LookbackDays]>>
                    ELSE <<[sha |-> "ccc", date |-> 0]>>]
    /\ sync = [p \in RaceProcs |-> IdleSync]
    /\ started = 0
    /\ obs = [p \in RaceProcs |-> IdleObs]
    /\ hist = NoHist
    /\ InitPosts
    /\ reg = NoReg
    /\ gen = IdleGen
    /\ posted = NotPosted
    /\ gate = NoGate

\* request number p is made once the requests before it have answered
SyncStartAfter(p) ==
    /\ p = started + 1
    /\ \A q \in RaceProcs \ {p} : sync[q].pc \in {"idle", "done", "failed"}
    /\ SyncStart(p)

\* two requests to POST /api/sync, one after the other, over a store whose
\* reads and inserts can fail, while time passes
NextRetry ==
    \/ Tick
    \/ \E p \in RaceProcs :
          \/ SyncStartAfter(p)
          \/ LoadRepositories(p)
          \/ GetCommitsSince(p)
          \/ GetCommitsSinceThrows(p)
          \/ LookupCommit(p)
          \/ LookupCommitThrows(p)
          \/ InsertCommit(p)
          \/ GetCommitDetailsThrows(p)
          \/ CreateCommitThrows(p)
          \/ UpdateRepositoryCheckpoint(p)
          \/ UpdateLastSyncTime(p)
          \/ SaveConfig(p)
          \/ SaveConfigThrows(p)

SpecRetry == InitRetry /\ [][NextRetry]_vars

\* ------------------------------------------------- sync and POST /api/config
\* a fresh server: nothing registered, no config document saved yet
InitConfig ==
    /\ clock = 0
    /\ repositories = <<>>
    /\ currentRepoId = 1
    /\ commits = <<>>
    /\ currentCommitId = 1
    /\ configFile = None
    /\ reposFile = None
    /\ source = [k \in RepoKeys |-> <<>>]
    /\ sync = [p \in RaceProcs |-> IdleSync]
    /\ started = 0
    /\ obs = [p \in RaceProcs |-> IdleObs]
    /\ hist = NoHist
    /\ InitPosts
    /\ reg = NoReg
    /\ gen = IdleGen
    /\ posted = NotPosted
    /\ gate = NoGate

\* each of the requests to POST /api/sync is sent once
SyncStartOnce(p) ==
    /\ sync[p].pc = "idle"
    /\ SyncStart(p)

\* requests to POST /api/sync, possibly overlapping, while the settings page
\* saves through POST /api/config and time passes
NextConfig ==
    \/ Tick
    \/ \E config \in ConfigInputs, repos \in RepositoriesInputs, configOk, reposOk \in BOOLEAN :
          PostConfig(config, repos, configOk, reposOk)
    \/ \E p \in RaceProcs :
          \/ SyncStartOnce(p)
          \/ LoadRepositories(p)
          \/ UpdateLastSyncTime(p)
          \/ SaveConfig(p)
          \/ SaveConfigThrows(p)

SpecConfig == InitConfig /\ [][NextConfig]_vars

\* ------------------------------------- the store under overlapping requests
\* a fresh server, and a source that holds one commit of acme/widgets
InitIds ==
    /\ clock = 0
    /\ repositories = <<>>
    /\ currentRepoId = 1
    /\ commits = <<>>
    /\ currentCommitId = 1
    /\ configFile = None
    /\ reposFile = None
    /\ source = [k \in RepoKeys |->
                    IF k = <<"acme", "widgets">> THEN <<[sha |-> "aaa", date |-> 0]>>
                    ELSE <<>>]
    /\ sync = [p \in RaceProcs |-> IdleSync]
    /\ started = 0
    /\ obs = [p \in RaceProcs |-> IdleObs]
    /\ hist = NoHist
    /\ InitPosts
    /\ reg = NoReg
    /\ gen = IdleGen
    /\ posted = NotPosted
    /\ gate = NoGate

\* storage.deleteRepository(id): the store's operation (no route calls it)
DeleteRepository(id) ==
    /\ repositories' = deleteRepository(id)
    /\ hist' = Disturbed(hist)
    /\ UNCHANGED <<reqVars, gate, postVars, clock, currentRepoId, commits, currentCommitId,
                   fileVars, source, sync, started, obs>>

\* storage.deleteBlogPost(id): the store's operation (no route calls it)
DeleteBlogPost(id) ==
    /\ blogPosts' = deleteBlogPost(id)
    /\ UNCHANGED <<reqVars, gate, clock, storeVars, fileVars, source, sync, started, obs, hist,
                   currentPostId, pub, hive>>

\* overlapping requests to POST /api/sync, POST /api/repositories and
\* POST /api/blog-posts, and deletions from the store
NextIds ==
    \/ \E key \in RepoKeys : RegisterRepository(key, "undefined", TRUE)
    \/ \E id \in 1..MaxRepos : DeleteRepository(id)
    \/ \E body \in DashboardInputs : CreateBlogPost(body, None)
    \/ \E id \in 1..MaxPosts : DeleteBlogPost(id)
    \/ \E p \in RaceProcs :
          \/ SyncStartOnce(p)
          \/ LoadRepositories(p)
          \/ GetCommitsSince(p)
          \/ LookupCommit(p)
          \/ InsertCommit(p)
          \/ UpdateRepositoryCheckpoint(p)
          \/ UpdateLastSyncTime(p)
          \/ SaveConfig(p)

SpecIds == InitIds /\ [][NextIds]_vars

\* --------------------------------------------- registration requests alone
InitRegister ==
    /\ clock = 0
    /\ repositories = <<>>
    /\ currentRepoId = 1
    /\ commits = <<>>
    /\ currentCommitId = 1
    /\ configFile = None
    /\ reposFile = None
    /\ source = [k \in RepoKeys |-> <<>>]
    /\ sync = [p \in Procs |-> IdleSync]
    /\ started = 0
    /\ obs = [p \in Procs |-> IdleObs]
    /\ hist = NoHist
    /\ InitPosts
    /\ gate = NoGate
    /\ reg = [NoReg EXCEPT !.on = TRUE]
    /\ gen = IdleGen
    /\ posted = NotPosted

NextRegister ==
    \E key \in RepoKeys, isActive \in {"true", "false", "undefined"},
       lastSyncTime \in {"undefined", "null", "text"},
       shaped, token, exists, answered, saveOk \in BOOLEAN :
        PostRepositories(key, shaped, isActive, lastSyncTime, token, exists, answered,
                         saveOk)

SpecRegister == InitRegister /\ [][NextRegister]_vars

\* ------------------------------------------------------------------ claims
\* the per-repository loop of the invocation is over
LoopOver(p) ==
    \/ sync[p].pc \in {"updateLastSyncTime", "saveConfig", "done"}
    \/ sync[p].pc = "failed" /\ obs[p].token

Snapshot(p) == sync[p].repositories

StoredShas == {commits[c].sha : c \in DOMAIN commits}

\* null counts as the minimum
CheckpointLe(a, b) == a = None \/ (b # None /\ a[1] <= b[1])

\* C1: dedup invariant. After any number of sync invocations one after the
\* other, whatever the source returned (the same hash in several invocations, in
\* two repositories, or twice in one candidate list), no two stored commits have
\* the same sha.
C1_DedupInvariant ==
    \A a \in DOMAIN commits : \A b \in DOMAIN commits :
        commits[a].sha = commits[b].sha => a = b

\* C1 witness: a second invocation has ended that was handed a candidate list
\* holding the same, already stored hash twice and inserted nothing.
C1_Witness ==
    \E p \in Procs :
        /\ started >= 2
        /\ sync[p].pc = "done"
        /\ sync[p].totalNewCommits = 0
        /\ commits # <<>>
        /\ \E id \in DOMAIN obs[p].got :
              /\ Len(obs[p].got[id]) = 2
              /\ obs[p].got[id][1] = obs[p].got[id][2]
              /\ obs[p].got[id][1] \in StoredShas

C3_PartialFailureIsolation ==
    \A p \in Procs :
        LoopOver(p) =>
            LET failing == SelectSeq(Snapshot(p), LAMBDA r : r.id \in obs[p].threw)
            IN  /\ \A n \in DOMAIN Snapshot(p) :
                      LET id == Snapshot(p)[n].id
                      IN  id \notin obs[p].threw =>
                              /\ id \in DOMAIN obs[p].got
                              /\ \A m \in DOMAIN obs[p].got[id] :
                                     obs[p].got[id][m] \in StoredShas
                /\ Len(sync[p].errors) = Len(failing)
                /\ \A n \in DOMAIN failing :
                      /\ sync[p].errors[n][1] = failing[n].owner
                      /\ sync[p].errors[n][2] = failing[n].name
                /\ sync[p].pc = "done" =>
                      sync[p].response[1].errors =
                          IF obs[p].threw = {} THEN None ELSE Some(sync[p].errors)

\* C3 witness: an invocation answered after a call threw for one repository and
\* a repository later in the loop had a commit inserted.
C3_Witness ==
    \E p \in Procs :
        /\ sync[p].pc = "done"
        /\ \E a \in obs[p].threw : \E b \in obs[p].written :
              /\ a < b
              /\ \E c \in DOMAIN commits :
                    /\ commits[c].repositoryId = b
                    /\ c > obs[p].preCount

\* C4 as stated: once the loop of an invocation is over, every loaded
\* repository has had its lastSyncTime written in that invocation, also when a
\* call for it threw.
C4_Original ==
    \A p \in Procs :
        LoopOver(p) =>
            \A n \in DOMAIN Snapshot(p) :
                /\ Snapshot(p)[n].id \in obs[p].written
                /\ repositories[Snapshot(p)[n].id].lastSyncTime # None

\* C4 amended: once the loop of an invocation is over, every loaded repository
\* for which no call threw has had its lastSyncTime written in that invocation,
\* and a repository whose list fetch or detail fetch threw has the lastSyncTime
\* it had when it was loaded; whenever a lastSyncTime is written, the value is
\* the time of the write.
C4_CheckpointUnlessThrown ==
    /\ [](\A p \in Procs :
            LoopOver(p) =>
                \A n \in DOMAIN Snapshot(p) :
                    LET repo == Snapshot(p)[n]
                        now == repositories[repo.id].lastSyncTime
                    IN  IF repo.id \in obs[p].threw
                        THEN /\ repo.id \notin obs[p].written
                             /\ now = repo.lastSyncTime
                        ELSE /\ repo.id \in obs[p].written
                             /\ now # None
                             /\ CheckpointLe(repo.lastSyncTime, now))
    /\ [][\A id \in DOMAIN repositories :
            repositories'[id].lastSyncTime # repositories[id].lastSyncTime =>
                repositories'[id].lastSyncTime = Some(clock)]_vars

\* C4 witness: an invocation is over in which a detail fetch threw for a
\* repository after one of its commits was inserted, and the repository still
\* has no lastSyncTime, while another repository had its checkpoint written.
C4_Witness ==
    \E p \in Procs :
        /\ sync[p].pc = "done"
        /\ obs[p].written # {}
        /\ \E id \in obs[p].threw :
              /\ repositories[id].lastSyncTime = None
              /\ \E c \in DOMAIN commits :
                    commits[c].repositoryId = id /\ c > obs[p].preCount

\* C5: checkpoint monotonicity. No step lowers a repository's lastSyncTime (null
\* counting as the minimum), removes a repository or changes the lastSyncTime of
\* an inactive repository; so after an invocation every repository has a
\* lastSyncTime >= the one it had before, and the inactive ones the same.
C5_CheckpointMonotonic ==
    [][\A id \in DOMAIN repositories :
          /\ id \in DOMAIN repositories'
          /\ CheckpointLe(repositories[id].lastSyncTime, repositories'[id].lastSyncTime)
          /\ ~repositories[id].isActive =>
                repositories'[id].lastSyncTime = repositories[id].lastSyncTime]_vars

\* C5 witness: a second invocation moved a repository's checkpoint from one
\* time to a later one while an inactive repository is still without one.
C5_Witness ==
    \E p \in Procs :
        /\ sync[p].pc = "done"
        /\ \E n \in DOMAIN Snapshot(p) :
              /\ Snapshot(p)[n].lastSyncTime # None
              /\ repositories[Snapshot(p)[n].id].lastSyncTime # None
              /\ Snapshot(p)[n].lastSyncTime[1] <
                     repositories[Snapshot(p)[n].id].lastSyncTime[1]
        /\ \E id \in DOMAIN repositories :
              ~repositories[id].isActive /\ repositories[id].lastSyncTime = None

\* C6 as stated: every invocation that got past setup and has answered has
\* written the global lastSyncTime of the config document.
C6_Original ==
    \A p \in Procs :
        (Responded(p) /\ obs[p].token) =>
            /\ configFile # None
            /\ configFile[1].lastSyncTime = Some(sync[p].timestamp)

\* C6 amended: in every invocation that gets past setup the config document is
\* saved at most once, after every loaded repository has been attempted (its
\* checkpoint written or its error captured), with a time not before any
\* checkpoint the invocation wrote, whether or not a repository failed. When the
\* save succeeds the document's lastSyncTime is that time and the rest of the
\* document is as loaded; when it throws, the invocation fails and the document
\* is as it was or unreadable.
C6_GlobalCheckpoint ==
    /\ [](\A p \in Procs :
            /\ sync[p].pc \in {"saveConfig", "done"} \/ (sync[p].pc = "failed" /\ obs[p].token) =>
                  \A n \in DOMAIN Snapshot(p) :
                      LET id == Snapshot(p)[n].id
                      IN  /\ id \in obs[p].threw \cup obs[p].written
                          /\ id \in obs[p].written =>
                                /\ repositories[id].lastSyncTime[1] <= sync[p].timestamp
                                /\ sync[p].timestamp <= clock
            /\ sync[p].pc = "done" =>
                  /\ configFile # None
                  /\ configFile = Some([sync[p].config[1] EXCEPT
                                            !.lastSyncTime = Some(sync[p].timestamp)])
            /\ (sync[p].pc = "failed" /\ obs[p].token) =>
                  /\ obs[p].saveThrew
                  /\ configFile = None \/ configFile = sync[p].config)
    /\ [][configFile' # configFile =>
            \E p \in Procs : /\ sync[p].pc = "saveConfig"
                             /\ sync'[p].pc \in {"done", "failed"}]_vars

\* C6 witness: an invocation answered 200 although a repository failed, and the
\* config document holds the time taken after a checkpoint was written.
C6_Witness ==
    \E p \in Procs :
        /\ sync[p].pc = "done"
        /\ obs[p].threw # {}
        /\ obs[p].written # {}
        /\ sync[p].timestamp >= 1
        /\ configFile # None
        /\ configFile[1].lastSyncTime = Some(sync[p].timestamp)

C8_SetupErrorNoEffect ==
    /\ [](\A p \in Procs :
            ~obs[p].token =>
                /\ sync[p].pc = "failed"
                /\ sync[p].response = Some([status |-> 500])
                /\ sync[p].lastCall = NoCall
                /\ obs[p].got = <<>>
                /\ obs[p].written = {}
                /\ Cardinality(DOMAIN commits) = obs[p].preCount)
    /\ [][\A p \in Procs :
            (started' # started /\ ~obs'[p].token) =>
                /\ commits' = commits
                /\ repositories' = repositories
                /\ configFile' = configFile]_vars

\* C8 witness: an invocation without a credential has failed in a state where
\* commits are stored, a repository has a checkpoint and the config document
\* holds a global checkpoint.
C8_Witness ==
    \E p \in Procs :
        /\ sync[p].pc = "failed"
        /\ ~obs[p].token
        /\ commits # <<>>
        /\ configFile # None
        /\ \E id \in DOMAIN repositories : repositories[id].lastSyncTime # None

\* C9: effective since. Every list request carries as since the lastSyncTime
\* stored for its repository when there is one, and the current time minus
\* seven days when there is none.
C9_EffectiveSince ==
    [][\A p \in Procs :
          (sync[p].pc = "getCommitsSince" /\ sync'[p] # sync[p]) =>
              LET repo == Snapshot(p)[sync[p].i]
                  stored == repositories[repo.id].lastSyncTime
              IN  /\ sync'[p].lastCall.kind = "list"
                  /\ sync'[p].lastCall.repoId = repo.id
                  /\ sync'[p].lastCall.since =
                         IF stored # None THEN stored[1] ELSE clock - LookbackDays]_vars

\* C9 witness: in one invocation a list request was sent with a stored
\* checkpoint as since, for a repository loaded after one without a checkpoint.
C9_Witness ==
    \E p \in Procs :
        /\ sync[p].lastCall.kind = "list"
        /\ sync[p].lastCall.since >= 0
        /\ \E n \in DOMAIN Snapshot(p) :
              /\ Snapshot(p)[n].id = sync[p].lastCall.repoId
              /\ Snapshot(p)[n].lastSyncTime = Some(sync[p].lastCall.since)
        /\ \E n \in DOMAIN Snapshot(p) :
              /\ Snapshot(p)[n].id < sync[p].lastCall.repoId
              /\ Snapshot(p)[n].lastSyncTime = None

\* C10: aggregate result. In the 200 answer of an invocation newCommits is the
\* number of commits added to the store since the invocation began (those of a
\* repository that failed later included), repositoriesProcessed is the number
\* of repositories that were active when the invocation loaded them, and errors
\* is absent exactly when no call threw for any repository.
C10_AggregateResult ==
    \A p \in Procs :
        sync[p].pc = "done" =>
            LET r == sync[p].response[1]
            IN  /\ r.newCommits = Cardinality(DOMAIN commits) - obs[p].preCount
                /\ r.repositoriesProcessed = Cardinality(obs[p].activeAtLoad)
                /\ r.errors = None <=> obs[p].threw = {}

\* C10 witness: a 200 answer counting a commit that was inserted for a
\* repository before a later detail fetch of that repository threw.
C10_Witness ==
    \E p \in Procs :
        /\ sync[p].pc = "done"
        /\ sync[p].response[1].newCommits >= 1
        /\ sync[p].response[1].errors # None
        /\ \E id \in obs[p].threw : \E c \in DOMAIN commits :
              commits[c].repositoryId = id /\ c > obs[p].preCount

\* C11 as stated: up to date after a clean pass. Once the loop of an invocation
\* is over, for every loaded repository whose pass recorded no error, every
\* commit the external source holds for it with date >= the since of its list
\* request is stored, however many such commits there are.
C11_UpToDate ==
    \A p \in Procs :
        LoopOver(p) =>
            \A n \in DOMAIN Snapshot(p) :
                LET repo == Snapshot(p)[n]
                    held == source[<<repo.owner, repo.name>>]
                IN  repo.id \notin obs[p].threw =>
                        \A m \in DOMAIN held :
                            held[m].date >= lastSync(repo) => held[m].sha \in StoredShas

\* the number of stored commits with the given sha, in a commit collection
CountSha(cs, sha) == Cardinality({c \in DOMAIN cs : cs[c].sha = sha})

\* C12: concurrent sync race. The dedup check and the insert are separated by
\* an await: an invocation whose check missed inserts its candidate whatever
\* the store holds by then, so when two overlapping invocations both miss the
\* check for the same hash, each insert adds one more stored commit with it.
C12_RaceDoubleInsert ==
    [][\A p \in RaceProcs :
          (sync[p].pc = "getCommitDetails"
             /\ sync'[p].totalNewCommits = sync[p].totalNewCommits + 1) =>
              LET sha == CurrentCandidate(p).sha
              IN  /\ CountSha(commits', sha) = CountSha(commits, sha) + 1
                  /\ commits'[currentCommitId].sha = sha]_vars

\* C12 witness: two overlapping invocations on the same repository have both
\* answered newCommits = 1, and two stored commits have the same hash.
C12_Witness ==
    /\ \A p \in RaceProcs :
          /\ sync[p].pc = "done"
          /\ sync[p].response[1].newCommits = 1
          /\ obs[p].preCount = 0
    /\ CountSha(commits, "aaa") = 2

\* the publish request answers 200 in this step
PublishSucceeds ==
    /\ pub.pc \in {"updateBlogPost", "markCommitsAsProcessed"}
    /\ pub'.pc = "done"
    /\ pub'.response # None
    /\ pub'.response[1].status = 200

\* the commit ids the handler reads from a post: the truthy id properties of the
\* elements of an array commitsIncluded
Referenced(post) == Range(commitIds(post))

\* every identifier in commitsIncluded, in whatever form: the id property of an
\* element or the element itself
Mentioned(post) ==
    IF post.commitsIncluded = None THEN {}
    ELSE {post.commitsIncluded[1].items[n].id :
              n \in DOMAIN post.commitsIncluded[1].items} \ {0}

\* C13 as stated, for a post whose commitsIncluded lists identifiers in any
\* form: when the publish request answers 200, every stored commit whose
\* identifier is listed has processed = true.
C13_Original ==
    [][PublishSucceeds =>
          \A c \in DOMAIN commits' :
              c \in Mentioned(pub.post[1]) => commits'[c].processed]_vars

\* C13 amended: publish marks exactly the commits referenced by id property.
\* With S the truthy id properties of the elements of an array commitsIncluded
\* (S is empty for null, a non-array value, or elements that are bare
\* identifiers): when the publish request answers 200 every stored commit whose
\* identifier is in S has processed = true, and no step of the publish handler
\* adds or removes a commit or changes a commit outside S, or anything but the
\* processed flag of a commit in S.
C13_PublishMarksReferenced ==
    [][/\ PublishSucceeds =>
             \A c \in DOMAIN commits' :
                 c \in Referenced(pub.post[1]) => commits'[c].processed
       /\ pub' # pub =>
             /\ DOMAIN commits' = DOMAIN commits
             /\ \A c \in DOMAIN commits :
                   IF pub.post # None /\ c \in Referenced(pub.post[1])
                   THEN [commits'[c] EXCEPT !.processed = FALSE] =
                            [commits[c] EXCEPT !.processed = FALSE]
                   ELSE commits'[c] = commits[c]]_vars

\* C13 witness: a publish of a post referencing commits 2 and 3 has answered
\* 200; commit 2 is processed, commit 1 is stored and not processed, and there
\* is no commit 3.
C13_Witness ==
    /\ pub.pc = "done"
    /\ pub.response # None
    /\ pub.response[1].status = 200
    /\ Referenced(pub.post[1]) = {2, 3}
    /\ DOMAIN commits = {1, 2}
    /\ commits[2].processed
    /\ ~commits[1].processed

\* C14 as stated: a post is published exactly once. The publishing network
\* accepts any given post at most once, and a publish request for a post whose
\* status is published does not send it to the network again.
C14_PublishedOnce ==
    /\ [](\A a \in DOMAIN hive : \A b \in DOMAIN hive : hive[a] = hive[b] => a = b)
    /\ [][hive' # hive =>
             /\ pub.postId \in DOMAIN blogPosts
             /\ blogPosts[pub.postId].status # "published"]_vars

\* C15: post status never regresses. No step removes a post; a post whose
\* status is published keeps that status, and its external post identifier and
\* publish timestamp, once set, are never null again.
C15_NeverRegresses ==
    [][\A id \in DOMAIN blogPosts :
          /\ id \in DOMAIN blogPosts'
          /\ blogPosts[id].status = "published" =>
                /\ blogPosts'[id].status = "published"
                /\ blogPosts[id].hivePostId # None => blogPosts'[id].hivePostId # None
                /\ blogPosts[id].publishedAt # None => blogPosts'[id].publishedAt # None]_vars

\* C15 witness: a post was published by a first request, a second publish
\* request for it was refused by the network, and it is still published with
\* its identifier and timestamp.
C15_Witness ==
    \E id \in DOMAIN blogPosts :
        /\ hive = <<id>>
        /\ pub.pc = "done"
        /\ pub.postId = id
        /\ pub.requests = 2
        /\ pub.response = Some([status |-> 500])
        /\ pub.result # None
        /\ blogPosts[id].status = "published"
        /\ blogPosts[id].hivePostId = Some(1)
        /\ blogPosts[id].publishedAt # None

\* the publish request has failed: the publishing client could not be
\* constructed or the Publisher returned a failure result
PublishFailed(q) == q.post # None /\ (q.result = None \/ ~q.result[1].success)

\* C16: publish failure keeps the draft. A publish request for a stored post
\* that found no posting key, or whose Publisher returned a failure result, is
\* answered 500 and the stored post is the post as the request loaded it; no
\* step of such a request changes a post, a commit or what the network holds.
C16_FailureKeepsDraft ==
    /\ [](pub.pc = "done" /\ PublishFailed(pub) =>
             /\ pub.response = Some([status |-> 500])
             /\ blogPosts[pub.postId] = pub.post[1])
    /\ [][(pub' # pub /\ PublishFailed(pub')) =>
             /\ blogPosts' = blogPosts
             /\ commits' = commits
             /\ hive' = hive]_vars

\* C16 witness: the network refused a draft that references a stored commit;
\* the request was answered 500, the post is still a draft without identifier
\* and timestamp, and the commit is not processed.
C16_Witness ==
    /\ pub.pc = "done"
    /\ pub.result = Some([success |-> FALSE, postId |-> 0])
    /\ pub.response = Some([status |-> 500])
    /\ blogPosts[pub.postId].status = "draft"
    /\ blogPosts[pub.postId].hivePostId = None
    /\ blogPosts[pub.postId].publishedAt = None
    /\ Referenced(blogPosts[pub.postId]) = {1}
    /\ 1 \in DOMAIN commits
    /\ ~commits[1].processed

\* C17: commits are immutable facts. No step of a sync or of a publish removes
\* a stored commit or changes its identifier, repository, hash or date, and its
\* processed flag never goes from true to false; a sync that meets a stored
\* hash leaves the commit as it is.
C17_CommitsImmutable ==
    [][\A c \in DOMAIN commits :
          /\ c \in DOMAIN commits'
          /\ [commits'[c] EXCEPT !.processed = FALSE] =
                 [commits[c] EXCEPT !.processed = FALSE]
          /\ commits[c].processed => commits'[c].processed]_vars

\* C17 witness: a second sync invocation was handed the hashes of two stored
\* commits, one of them processed by a publish, and inserted nothing.
C17_Witness ==
    \E p \in Procs :
        /\ started = 2
        /\ sync[p].pc = "done"
        /\ obs[p].preCount = 2
        /\ sync[p].totalNewCommits = 0
        /\ 1 \in DOMAIN obs[p].got
        /\ Len(obs[p].got[1]) = 2
        /\ DOMAIN commits = {1, 2}
        /\ commits[1].processed
        /\ ~commits[2].processed
        /\ hive # <<>>

\* the lists of at most MaxIds identifiers, stored or not, repeats included
IdLists == UNION {[1..n -> 1..(MaxPush + 1)] : n \in 0..MaxIds}

\* C18: markCommitsAsProcessed is idempotent and total. On every reachable
\* commit collection and for every list of identifiers, marking twice gives the
\* collection that marking once gives; marking once keeps the set of stored
\* commits, sets processed on each stored commit of the list and changes nothing
\* else, identifiers without a stored commit being skipped.
C18_MarkIdempotentTotal ==
    \A ids \in IdLists :
        LET once == MarkEach(commits, ids)
        IN  /\ MarkEach(once, ids) = once
            /\ DOMAIN once = DOMAIN commits
            /\ \A c \in DOMAIN commits :
                   once[c] = IF c \in Range(ids)
                             THEN [commits[c] EXCEPT !.processed = TRUE]
                             ELSE commits[c]

\* C18 witness: two publish requests for the same post have marked the list
\* <<2, 3>> twice on a store that holds commits 1 and 2 and no commit 3: commit
\* 2 is processed, commit 1 is not.
C18_Witness ==
    /\ pub.pc = "done"
    /\ pub.requests = 2
    /\ hive = <<pub.postId, pub.postId>>
    /\ pub.post # None
    /\ commitIds(pub.post[1]) = <<2, 3>>
    /\ pub.response = Some(PublishResponse(pub.result[1]))
    /\ DOMAIN commits = {1, 2}
    /\ commits[2].processed
    /\ ~commits[1].processed

\* C19: processed means published. In every state each stored commit with
\* processed = true is referenced by a stored post whose status is published,
\* and every commit added to the store has processed = false.
C19_ProcessedMeansPublished ==
    /\ [](\A c \in DOMAIN commits :
             commits[c].processed =>
                 \E id \in DOMAIN blogPosts :
                     /\ blogPosts[id].status = "published"
                     /\ c \in Referenced(blogPosts[id]))
    /\ [][\A c \in DOMAIN commits' \ DOMAIN commits : ~commits'[c].processed]_vars

\* C19 witness: commit 1 is processed and the published post of the last
\* publish request references it, while commit 2, referenced only by a draft,
\* is not processed.
C19_Witness ==
    /\ pub.pc = "done"
    /\ pub.post # None
    /\ Referenced(pub.post[1]) = {1}
    /\ blogPosts[pub.postId].status = "published"
    /\ DOMAIN commits = {1, 2}
    /\ commits[1].processed
    /\ ~commits[2].processed
    /\ \E id \in DOMAIN blogPosts :
          /\ blogPosts[id].status = "draft"
          /\ 2 \in Referenced(blogPosts[id])

\* the calls of the second run so far had the outcomes of the first run's
\* calls, as far as both go
SameOutcomes(k) ==
    \A j \in 1..k :
        /\ j <= Len(gate.first.log)
        /\ j <= Len(gate.log)
        /\ gate.first.log[j].threw = gate.log[j].threw

\* C20: the global checkpoint does not gate any fetch. Of two runs (the first
\* and the second invocation of the scenario) that start
\* from states differing only in the global lastSyncTime of the config document,
\* with or without the credential alike: as long as the calls of the second run
\* had the outcomes of the first run's calls, its next call is the first run's
\* next call, with the same since; and when both have answered, their calls
\* having had the same outcomes, they sent the same sequence of calls and leave
\* the same commits and the same repositories with the same checkpoints.
C20_GlobalCheckpointGatesNothing ==
    \A p \in Procs :
        (gate.phase = 2 /\ started = 2 /\ sync[p].pc # "idle"
            /\ obs[p].token = gate.first.token) =>
            /\ \A k \in 1..Len(gate.log) :
                   SameOutcomes(k - 1) =>
                       /\ k <= Len(gate.first.log)
                       /\ gate.log[k].call = gate.first.log[k].call
            /\ (Responded(p) /\ SameOutcomes(Len(gate.log))) =>
                   /\ Len(gate.log) = Len(gate.first.log)
                   /\ commits = gate.first.commits
                   /\ repositories = gate.first.repositories

\* C20 witness: the second run has answered 200 after the same calls with the
\* same outcomes as the first, a list call with the lookback default, a list
\* call with a checkpoint and a detail call among them, from a global
\* lastSyncTime of 1 where the first run had another, and the store is the same.
C20_Witness ==
    \E p \in Procs :
        /\ gate.phase = 2
        /\ started = 2
        /\ sync[p].pc = "done"
        /\ gate.secondConfig = Some(1)
        /\ gate.firstConfig # gate.secondConfig
        /\ gate.log = gate.first.log
        /\ \E k \in DOMAIN gate.log :
              gate.log[k].call.kind = "list" /\ gate.log[k].call.since = clock - LookbackDays
        /\ \E k \in DOMAIN gate.log :
              gate.log[k].call.kind = "list" /\ gate.log[k].call.since = 0
        /\ \E k \in DOMAIN gate.log : gate.log[k].call.kind = "detail"
        /\ commits = gate.first.commits
        /\ repositories = gate.first.repositories
        /\ commits # gate.snap.commits

\* C21: registration validates existence. A request to POST /api/repositories
\* stores a repository only when the history provider holds owner/name; a
\* request for a repository that does not exist is answered with a non-2xx
\* status and changes neither the repository collection of the store nor the
\* repository-list document.
C21_RegistrationValidates ==
    [][ /\ (repositories' # repositories) => reg'.exists
        /\ (reg' # reg /\ ~reg'.exists) =>
               /\ reg'.status \notin 200..299
               /\ repositories' = repositories
               /\ currentRepoId' = currentRepoId
               /\ reposFile' = reposFile ]_vars

\* C21 witness: after a first repository was registered and the document
\* written, a well-formed request with a token for a repository that does not
\* exist was validated, found invalid and answered 400.
C21_Witness ==
    /\ reg.isValid = Some(FALSE)
    /\ ~reg.exists
    /\ reg.status = 400
    /\ reg.id = 0
    /\ Cardinality(DOMAIN repositories) = 1
    /\ reposFile # None

\* C22: createRepository defaults. The repository an accepted registration
\* creates has an identifier that no other stored repository has, the owner
\* and name of the request, isActive as the request specifies it and true when
\* it does not, and no lastSyncTime.
C22_CreateRepositoryDefaults ==
    [][ (reg' # reg /\ reg'.id # 0) =>
            \E k \in DOMAIN repositories' \ DOMAIN repositories :
                LET created == repositories'[k]
                IN  /\ created.id = reg'.id
                    /\ \A o \in DOMAIN repositories' \ {k} :
                           repositories'[o].id # created.id
                    /\ created.owner = reg'.owner
                    /\ created.name = reg'.name
                    /\ created.isActive = IF reg'.isActive = "undefined" THEN TRUE
                                          ELSE reg'.isActive = "true"
                    /\ created.lastSyncTime = None ]_vars

\* C22 witness: a repository registered as inactive is stored, and a second
\* registration that did not specify isActive created an active repository
\* with another identifier and no lastSyncTime.
C22_Witness ==
    /\ reg.id = 2
    /\ reg.isActive = "undefined"
    /\ DOMAIN repositories = {1, 2}
    /\ ~repositories[1].isActive
    /\ repositories[2].isActive
    /\ repositories[2].id # repositories[1].id
    /\ repositories[2].lastSyncTime = None

\* C29: owner+name is a key. A successful request to POST /api/repositories
\* for an owner/name pair that is already stored does not create a second
\* repository, so that no two stored repositories come to have the same owner
\* and name.
C29_OwnerNameIsKey ==
    [][ (reg' # reg /\ reg'.status \in 200..299) =>
            \A a \in DOMAIN repositories' \ DOMAIN repositories, b \in DOMAIN repositories :
                ~(/\ repositories'[a].owner = repositories[b].owner
                  /\ repositories'[a].name = repositories[b].name) ]_vars

\* the message is malformed: text that does not parse, or a value that is not
\* an object holding title, content, summary and tags
Malformed(content) ==
    \/ content = None
    \/ content[1] \notin
           {"{\"title\":\"Report\",\"content\":\"Body\",\"summary\":\"Short\",\"tags\":[\"hive\"]}"}

\* C23: summary fallback. When the language model answered with a malformed
\* message (text that does not parse, or an object missing title, content,
\* summary or tags) the request does not fail: it is answered 200 with a
\* summary whose missing fields hold the defaults.
C23_SummaryFallback ==
    (gen.asked /\ Malformed(gen.content)) =>
        /\ gen.response[1].status = 200
        /\ gen.response[1].summary # None

\* C24: sync terminates. Every call eventually returning or throwing, an
\* invocation of POST /api/sync that has begun eventually answers, with the
\* aggregate result or with a hard failure.
C24_SyncTerminates ==
    \A p \in Procs : (sync[p].pc \notin {"idle", "done", "failed"}) ~> Responded(p)

\* C24 witness: an invocation over two repositories has answered 200 after it
\* stored a commit of one and captured the error of the other.
C24_Witness ==
    \E p \in Procs :
        /\ sync[p].pc = "done"
        /\ Len(sync[p].repositories) = 2
        /\ sync[p].totalNewCommits >= 1
        /\ Len(sync[p].errors) = 1

\* the pass over repository number n of the snapshot has ended: its checkpoint
\* was written or its error captured
PassEnded(p, n) == Snapshot(p)[n].id \in obs[p].written \cup obs[p].threw

\* a call was issued for repository number n of the snapshot
PassBegun(p, n) == Snapshot(p)[n].id \in DOMAIN obs[p].got \cup obs[p].threw

\* C25: sequential processing. Within an invocation the repositories are
\* taken one at a time and the candidates one at a time, in the order the
\* source returned them: a call was issued for a repository only after the
\* pass of every repository before it had ended, at most one repository is
\* between its list fetch and the end of its pass, that one is the current
\* one, whose candidates before the current one have all been handled (each
\* is stored), and the invocation awaits one call, the one of its position.
C25_SequentialProcessing ==
    \A p \in Procs :
        (sync[p].pc \notin {"idle", "failed"} /\ Snapshot(p) # <<>>) =>
            /\ \A n \in DOMAIN Snapshot(p) :
                   /\ PassBegun(p, n) => \A m \in 1..(n - 1) : PassEnded(p, m)
                   /\ (PassBegun(p, n) /\ ~PassEnded(p, n)) => n = sync[p].i
                   /\ n > sync[p].i => ~PassBegun(p, n)
            /\ sync[p].pc \in {"getCommitsBySha", "getCommitDetails", "updateRepository"} =>
                   /\ sync[p].i \in DOMAIN Snapshot(p)
                   /\ sync[p].githubCommits =
                          [m \in DOMAIN sync[p].githubCommits |->
                              [sha |-> obs[p].got[CurrentRepo(p).id][m],
                               date |-> sync[p].githubCommits[m].date]]
                   /\ \A m \in 1..(sync[p].j - 1) :
                          m <= Len(sync[p].githubCommits)
                          /\ sync[p].githubCommits[m].sha \in StoredShas
            /\ sync[p].pc \in {"getCommitsBySha", "getCommitDetails"} =>
                   sync[p].j \in DOMAIN sync[p].githubCommits

\* C25 witness: the pass of the first repository has ended and the invocation
\* awaits the detail of the second candidate of the second repository, the
\* first candidate stored.
C25_Witness ==
    \E p \in Procs :
        /\ sync[p].pc = "getCommitDetails"
        /\ sync[p].i = 2
        /\ sync[p].j = 2
        /\ PassEnded(p, 1)
        /\ sync[p].githubCommits[1].sha \in StoredShas
        /\ sync[p].githubCommits[2].sha \notin StoredShas

\* the step sends a detail fetch to the history provider
DetailFetched ==
    /\ Len(gate'.log) = Len(gate.log) + 1
    /\ gate'.log[Len(gate'.log)].call.kind = "detail"

\* the step inserts a commit
Inserted == Cardinality(DOMAIN commits') = Cardinality(DOMAIN commits) + 1

\* the invocation takes a step from this position
StepsFrom(p, pc) == sync[p].pc = pc /\ sync'[p] # sync[p]

\* C26 as stated: once the lookup of a candidate found no stored commit, a
\* detail fetch and an insert are issued for it, and they are issued in no
\* other case.
C26_Original ==
    [][\A p \in Procs :
          /\ StepsFrom(p, "getCommitDetails") => (DetailFetched /\ Inserted)
          /\ (DetailFetched \/ Inserted) => sync[p].pc = "getCommitDetails"]_vars

\* C26: dedup gate ordering. The lookup of a candidate comes first and sends
\* nothing and inserts nothing; the detail fetch follows if and only if the
\* lookup found no stored commit with that hash, and is for that hash; the
\* insert follows if and only if that detail fetch returned, and stores that
\* hash; when the detail fetch throws nothing is inserted for the candidate.
C26_DedupGateOrdering ==
    [][\A p \in Procs :
          /\ StepsFrom(p, "getCommitsBySha") =>
                /\ ~DetailFetched
                /\ commits' = commits
                /\ sync'[p].pc = "getCommitDetails" <=>
                       CurrentCandidate(p).sha \notin StoredShas
                /\ sync'[p].pc = "getCommitDetails" =>
                       (sync'[p].i = sync[p].i /\ sync'[p].j = sync[p].j)
          /\ StepsFrom(p, "getCommitDetails") =>
                /\ DetailFetched
                /\ gate'.log[Len(gate'.log)].call =
                       DetailCall(CurrentRepo(p), CurrentCandidate(p).sha)
                /\ Inserted <=> ~gate'.log[Len(gate'.log)].threw
                /\ Inserted =>
                       \E c \in DOMAIN commits' \ DOMAIN commits :
                           /\ commits'[c].sha = CurrentCandidate(p).sha
                           /\ \A o \in DOMAIN commits : commits'[o] = commits[o]
                /\ ~Inserted => commits' = commits
          /\ (DetailFetched \/ Inserted) => sync[p].pc = "getCommitDetails"]_vars

\* C26 witness: an invocation has answered that looked up one candidate,
\* found nothing, fetched its detail and inserted it, and looked up another,
\* found it stored, and sent and inserted nothing for it.
C26_Witness ==
    \E p \in Procs :
        /\ gate.phase = 1
        /\ sync[p].pc = "done"
        /\ obs[p].preCount = 1
        /\ obs[p].got = (1 :> <<"aaa">>) @@ (2 :> <<"bbb">>)
        /\ StoredShas = {"aaa", "bbb"}
        /\ Len(gate.log) = 3
        /\ gate.log[2] = [call |-> DetailCall(Snapshot(p)[1], "aaa"), threw |-> FALSE]
        /\ gate.log[3].call.kind = "list"

\* C27: inactive repositories are skipped. No step sends a list or detail
\* fetch for a repository that is inactive (isActive never changes, so it was
\* inactive when the invocation loaded the repositories, or was registered
\* after), captures an error or writes a checkpoint for it, inserts a commit
\* attributed to it, or changes one of its fields.
C27_InactiveSkipped ==
    [][\A p \in Procs : \A id \in DOMAIN repositories :
          ~repositories[id].isActive =>
              /\ repositories'[id] = repositories[id]
              /\ sync'[p].lastCall.repoId # id
              /\ \A n \in DOMAIN sync'[p].repositories : sync'[p].repositories[n].id # id
              /\ id \notin DOMAIN obs'[p].got \cup obs'[p].threw \cup obs'[p].written
              /\ \A c \in DOMAIN commits' \ DOMAIN commits :
                     commits'[c].repositoryId # id]_vars

\* C27 witness: an invocation has answered 200 that loaded the repositories
\* while acme/widgets was registered inactive and acme/gadgets active; the
\* commit of the second is stored and its checkpoint written, the commit the
\* source holds for the first is not stored and the first has no checkpoint.
C27_Witness ==
    \E p \in Procs :
        /\ sync[p].pc = "done"
        /\ DOMAIN repositories = {1, 2}
        /\ obs[p].activeAtLoad = {2}
        /\ ~repositories[1].isActive
        /\ repositories[1].name = "widgets"
        /\ repositories[2].name = "gadgets"
        /\ repositories[1].lastSyncTime = None
        /\ repositories[2].lastSyncTime # None
        /\ source[<<"acme", "widgets">>] # <<>>
        /\ \E c \in DOMAIN commits : commits[c].repositoryId = 2
        /\ \A c \in DOMAIN commits :
               commits[c].sha # source[<<"acme", "widgets">>][1].sha

\* C28: published posts come from the Publisher. A stored post with status
\* published has an external post identifier and a publish timestamp, and a
\* post whose publish request has failed is stored as draft.
C28_PublishedByPublisher ==
    /\ \A id \in DOMAIN blogPosts :
           blogPosts[id].status = "published" =>
               (blogPosts[id].hivePostId # None /\ blogPosts[id].publishedAt # None)
    /\ (pub.pc = "done" /\ PublishFailed(pub)) =>
           blogPosts[pub.postId].status = "draft"

\* C30: the checkpoint bounds processed history. Once an invocation has
\* answered in which no call threw, the source unchanged since it began: for
\* every repository it loaded, every commit the source holds for that
\* repository with a date earlier than the repository's lastSyncTime is in the
\* store (no commit is older than the lookback of the first sync here). A
\* commit that became visible before this invocation began, during an earlier
\* pass or after it, is among them.
C30_CheckpointBoundsHistory ==
    \A p \in Procs :
        (sync[p].pc = "done" /\ hist.prev = "clean") =>
            \A n \in DOMAIN Snapshot(p) :
                LET repo == repositories[Snapshot(p)[n].id]
                    held == source[<<repo.owner, repo.name>>]
                IN  repo.lastSyncTime # None =>
                        \A m \in DOMAIN held :
                            (held[m].date < repo.lastSyncTime[1]
                             /\ held[m].date >= 0 - LookbackDays) =>
                                held[m].sha \in StoredShas

\* the step captures an error for the current candidate of the invocation
CandidateThrows(p) ==
    /\ sync[p].pc \in {"getCommitsBySha", "getCommitDetails"}
    /\ Len(sync'[p].errors) = Len(sync[p].errors) + 1

\* C31: a failing candidate ends its repository's pass without rollback. When
\* the dedup read, the detail fetch or the insert for a candidate throws, the
\* invocation leaves the repository (no later candidate of it is looked up,
\* fetched or inserted: the position is past every repository an error was
\* captured for), writes no checkpoint, and the commits it has inserted stay
\* stored and stay counted: until the next invocation begins, the count is
\* the number of commits stored since the invocation began.
C31_FailingCandidateEndsPass ==
    /\ [](\A p \in RaceProcs :
             /\ (sync[p].pc \notin {"idle", "failed"}) =>
                    /\ \A n \in DOMAIN Snapshot(p) :
                           Snapshot(p)[n].id \in obs[p].threw => sync[p].i > n
                    /\ p = started =>
                           sync[p].totalNewCommits =
                               Cardinality(DOMAIN commits) - obs[p].preCount
             /\ sync[p].pc = "done" =>
                    sync[p].response[1].newCommits = sync[p].totalNewCommits)
    /\ [][\A p \in RaceProcs :
             CandidateThrows(p) =>
                 /\ sync'[p].i = sync[p].i + 1
                 /\ sync'[p].pc \in {"getCommitsSince", "updateLastSyncTime"}
                 /\ sync'[p].githubCommits = <<>>
                 /\ sync'[p].totalNewCommits = sync[p].totalNewCommits
                 /\ commits' = commits
                 /\ repositories' = repositories]_vars

\* C31 witness: an invocation has answered 200 in which the second candidate
\* of a repository threw after the first was inserted: the first is stored and
\* counted, the second is not stored, and the repository has no checkpoint
\* from this invocation.
C31_Witness ==
    \E p \in RaceProcs :
        /\ sync[p].pc = "done"
        /\ obs[p].preCount = 0
        /\ 1 \in obs[p].threw
        /\ 1 \notin obs[p].written
        /\ 1 \in DOMAIN obs[p].got
        /\ obs[p].got[1] = <<"bbb", "aaa">>
        /\ "bbb" \in StoredShas
        /\ "aaa" \notin StoredShas
        /\ sync[p].response[1].newCommits >= 1

\* the first invocation's pass of repository id threw after its list fetch
\* returned, and the next invocation's pass of it ended with the checkpoint
\* write and no error
FailedThenClean(id) ==
    /\ id \in obs[1].threw
    /\ id \in DOMAIN obs[1].got
    /\ started = 2
    /\ id \in obs[2].written
    /\ id \notin obs[2].threw

\* the checkpoint the repository had when the first invocation loaded it
CheckpointAtFirst(id) ==
    LET n == CHOOSE n \in DOMAIN Snapshot(1) : Snapshot(1)[n].id = id
    IN  Snapshot(1)[n].lastSyncTime

\* the dates the source holds for a hash of the repository
DatesOf(id, sha) ==
    LET r == CHOOSE r \in DOMAIN repositories : repositories[r].id = id
        key == <<repositories[r].owner, repositories[r].name>>
    IN  {source[key][m].date : m \in {m \in DOMAIN source[key] : source[key][m].sha = sha}}

StoredElsewhere(sha, id) ==
    {c \in DOMAIN commits : commits[c].sha = sha /\ commits[c].repositoryId # id}

\* C33: the dedup lookup is global, not per repository. A candidate of
\* repository B whose hash is already stored under a different repository A is
\* skipped: the lookup goes on to the next candidate with no detail fetch and
\* no insert, the stored commit keeps its attribution to A, and the store
\* holds exactly one commit with that hash, attributed to A, and none
\* attributed to B; whatever the invocations did, no hash is stored twice or
\* under two repositories.
C33_DedupLookupIsGlobal ==
    /\ [](\A c1, c2 \in DOMAIN commits :
             commits[c1].sha = commits[c2].sha => c1 = c2)
    /\ [][\A p \in Procs :
             (/\ sync[p].pc = "getCommitsBySha"
              /\ sync'[p] # sync[p]
              /\ StoredElsewhere(CurrentCandidate(p).sha, CurrentRepo(p).id) # {}) =>
                 LET sha == CurrentCandidate(p).sha
                     B == CurrentRepo(p).id
                 IN  /\ sync'[p].pc # "getCommitDetails"
                     /\ sync'[p].totalNewCommits = sync[p].totalNewCommits
                     /\ commits' = commits
                     /\ CountSha(commits', sha) = 1
                     /\ \A c \in DOMAIN commits' :
                            commits'[c].sha = sha => commits'[c].repositoryId # B]_vars

\* C33 witness: an invocation has answered 200 without errors; the list fetch
\* of repository 2 returned a hash that is stored once, under repository 1,
\* and the pass of repository 2 ended with its checkpoint write.
C33_Witness ==
    \E p \in Procs :
        /\ sync[p].pc = "done"
        /\ sync[p].errors = <<>>
        /\ 2 \in DOMAIN obs[p].got
        /\ 2 \in obs[p].written
        /\ obs[p].got[2] # <<>>
        /\ LET sha == obs[p].got[2][1]
           IN  /\ CountSha(commits, sha) = 1
               /\ StoredElsewhere(sha, 2) # {}
               /\ \A c \in StoredElsewhere(sha, 2) : commits[c].repositoryId = 1

\* C34: a failed registration changes nothing. Whenever POST
\* /api/repositories answers with a non-2xx error (invalid body, missing
\* credential, repository not found, or the repository-list document cannot
\* be saved), the store's repository collection is the same as before the
\* request.
C34_FailedRegistrationChangesNothing ==
    [][ (reg' # reg /\ reg'.status \notin 200..299) =>
            repositories' = repositories ]_vars

\* the settings of a config document other than lastSyncTime
Settings(doc) == [syncInterval |-> doc.syncInterval, autoPublish |-> doc.autoPublish]

\* the invocation's updateLastSyncTime saves
CheckpointSaves(p) == sync[p].pc = "saveConfig" /\ sync'[p].pc = "done"

\* C35 as stated: the global checkpoint write preserves the rest of the config
\* document: updateLastSyncTime changes only lastSyncTime, and every other
\* setting keeps the value most recently saved through POST /api/config, also
\* when that save is interleaved between updateLastSyncTime's load and its
\* save.
C35_Original ==
    [][\A p \in RaceProcs :
          (CheckpointSaves(p) /\ posted.doc # None /\ posted.intact
             /\ \A q \in RaceProcs : ~obs[q].saveThrew) =>
              /\ configFile' # None
              /\ configFile'[1].lastSyncTime = Some(sync[p].timestamp)
              /\ Settings(configFile'[1]) = Settings(posted.doc[1])]_vars

\* C35 amended: updateLastSyncTime writes back the document it loaded with
\* only lastSyncTime changed. Every other setting keeps the value most
\* recently saved through POST /api/config when that save was complete before
\* updateLastSyncTime's load (and no write of the document failed); a save
\* that lands between the load and the save of an updateLastSyncTime is
\* overwritten with the document loaded before it.
C35_CheckpointWritePreservesLoaded ==
    [][\A p \in RaceProcs :
          CheckpointSaves(p) =>
              /\ configFile' =
                     Some([sync[p].config[1] EXCEPT !.lastSyncTime = Some(sync[p].timestamp)])
              /\ (/\ posted.doc # None
                  /\ posted.intact
                  /\ ~posted.overtook
                  /\ \A q \in RaceProcs : ~obs[q].saveThrew) =>
                     Settings(configFile'[1]) = Settings(posted.doc[1])]_vars

\* C35 witness: POST /api/config saved settings other than the defaults, no
\* save has overtaken an updateLastSyncTime, and an invocation that began
\* afterwards has saved the checkpoint: the document holds the posted settings
\* and the new lastSyncTime.
C35_Witness ==
    /\ posted.doc # None
    /\ posted.intact
    /\ ~posted.overtook
    /\ Settings(posted.doc[1]) # Settings(getDefaultConfig)
    /\ clock = 1
    /\ \E p \in RaceProcs :
          /\ sync[p].pc = "done"
          /\ sync[p].timestamp = 1
          /\ configFile = Some([posted.doc[1] EXCEPT !.lastSyncTime = Some(1)])

\* the entries of a collection have distinct identifiers, all of them below
\* the collection's counter
UniqueBelow(m, counter) ==
    /\ \A a, b \in DOMAIN m : m[a].id = m[b].id => a = b
    /\ \A a \in DOMAIN m : m[a].id = a /\ a < counter

\* a step assigns identifiers in increasing order: the counter never goes
\* back, and an entry that is new after the step has the identifier the
\* counter held before it, which the counter has then passed
AssignedInOrder(m, mNext, counter, counterNext) ==
    /\ counterNext >= counter
    /\ \A a \in DOMAIN mNext \ DOMAIN m :
          /\ mNext[a].id = counter
          /\ counterNext = counter + 1
          /\ \A b \in DOMAIN m : m[b].id < mNext[a].id

\* C36: surrogate identifiers are unique. In every reachable state, under any
\* interleaving of overlapping sync, registration and post-creation requests,
\* no two stored commits share an identifier, no two repositories do and no
\* two posts do; identifiers are assigned in strictly increasing order (each
\* new one is the counter's value, above every identifier assigned before,
\* and the counter never goes back) and are never reused after a deletion.
C36_SurrogateIdsUnique ==
    /\ [](/\ UniqueBelow(commits, currentCommitId)
          /\ UniqueBelow(repositories, currentRepoId)
          /\ UniqueBelow(blogPosts, currentPostId))
    /\ [][/\ AssignedInOrder(commits, commits', currentCommitId, currentCommitId')
          /\ AssignedInOrder(repositories, repositories', currentRepoId, currentRepoId')
          /\ AssignedInOrder(blogPosts, blogPosts', currentPostId, currentPostId')]_vars

\* C36 witness: two overlapping invocations have each inserted a commit (ids
\* 1 and 2); the repository and the post created first were deleted and the
\* ones created after the deletion, with the collections empty, got
\* identifier 2, not 1 again.
C36_Witness ==
    /\ DOMAIN commits = {1, 2}
    /\ \A p \in RaceProcs : sync[p].pc = "done" /\ sync[p].totalNewCommits = 1
    /\ DOMAIN repositories = {2}
    /\ repositories[2].id = 2
    /\ currentRepoId = 3
    /\ DOMAIN blogPosts = {2}
    /\ blogPosts[2].id = 2
    /\ currentPostId = 3

====
